---- MODULE Spec2Model ----
(***************************************************************************)
(* Model of the mcp-arr tool dispatcher (src/src/index.ts): the service    *)
(* registry built at startup, the advertised tool list, and the call-tool  *)
(* handler with its backend calls.  One invocation is followed from the    *)
(* request to the returned result; a backend call is issued by the handler *)
(* and settled by the backend.  A settle step includes the continuation of *)
(* the handler that was waiting for it (promise reactions run to           *)
(* completion before the next I/O event is processed).                     *)
(*                                                                         *)
(* Strings that the code builds from parts (error messages, JSON texts)    *)
(* are sequences of tokens; a JSON object is the sequence of its           *)
(* <<key, value>> members in emission order.                               *)
(***************************************************************************)
EXTENDS Integers, Sequences, FiniteSets, TLC

VARIABLES clients, TOOLS, pc, name, args, ip, calls, acc, result

\* the Tautulli backend's data, the outcome of the previous invocation, and
\* the order in which the calls of the current invocation have settled
VARIABLES backend, prev, settled

\* the process environment, the exit code of the process, and the answer to
\* the last list-tools request
VARIABLES env, exitCode, listed

\* the series or movies the backend holds, in the order it returns them
VARIABLES library

\* the last byte count given to formatBytes and the text it returned
VARIABLES bytes, formatted

\* the HTTP request a client has sent and the response the backend gave
VARIABLES request, response

\* the backend data handed to the watch-history code, what the server makes of
\* it, and what scripts/dummy_test.mjs makes of it
VARIABLES probe, served, scripted

serverVars == <<clients, TOOLS, pc, name, args, ip, calls, acc, result>>

historyVars == <<backend, prev, settled>>

\* the variables that the dispatcher specification leaves alone
startupVars == <<env, exitCode, listed>>

formatVars == <<bytes, formatted>>

clientVars == <<request, response>>

scriptVars == <<probe, served, scripted>>

extVars == <<historyVars, startupVars, library, formatVars, clientVars, scriptVars>>

vars == <<serverVars, extVars>>

\* the value of a variable that a specification does not use
Unused == "unused"

HistoryIdle == backend = Unused /\ prev = Unused /\ settled = Unused

StartupIdle == env = Unused /\ exitCode = Unused /\ listed = Unused

LibraryIdle == library = Unused

FormatIdle == bytes = Unused /\ formatted = Unused

ClientIdle == request = Unused /\ response = Unused

ScriptIdle == probe = Unused /\ served = Unused /\ scripted = Unused

ExtIdle == HistoryIdle /\ StartupIdle /\ LibraryIdle /\ FormatIdle /\ ClientIdle /\ ScriptIdle

(***************************************************************************)
(* Bounds of the model's inputs.                                           *)
(***************************************************************************)
MaxRows == 101          \* most rows a history search answers with
MaxLength == 101        \* largest length argument tried
MaxIds == 2             \* most episode-file ids a season answers with
MaxItems == 3           \* most items of a library whose sorting is followed
MaxLibrary == 1001      \* most items of a library

(***************************************************************************)
(* Program constants.                                                      *)
(***************************************************************************)
ReturnCap == 100        \* cap on emitted watch-history rows
DefaultHistoryLength == 25
HistorySearchLength == 1000
LibrarySearchLimit == 10
LimitCap == 1000        \* cap on the limit argument of the list tools
UnitBase == 1024        \* k, the base of the byte units

Min(a, b) == IF a <= b THEN a ELSE b

Range(s) == {s[i] : i \in DOMAIN s}

RECURSIVE SelectSeqBy(_, _)
\* the subsequence of s whose elements are in the set keep (Array.filter)
SelectSeqBy(s, keep) ==
  IF s = <<>> THEN <<>>
  ELSE (IF Head(s) \in keep THEN <<Head(s)>> ELSE <<>>) \o SelectSeqBy(Tail(s), keep)

(***************************************************************************)
(* Services.                                                               *)
(***************************************************************************)
\* the declared *arr families, in declaration order
services == <<"sonarr", "radarr", "lidarr", "readarr", "prowlarr">>

\* the families that get configuration tools and take part in arr_search_all
LibraryServices == <<"sonarr", "radarr", "lidarr", "readarr">>

OptionalServices == <<"tautulli", "overseerr">>

AllServices == Range(services) \cup Range(OptionalServices)

\* the name a per-service handler puts in its "not configured" message
DisplayName(s) ==
  CASE s = "sonarr" -> "Sonarr"
    [] s = "radarr" -> "Radarr"
    [] s = "lidarr" -> "Lidarr"
    [] s = "readarr" -> "Readarr"
    [] s = "prowlarr" -> "Prowlarr"
    [] s = "tautulli" -> "Tautulli"
    [] s = "overseerr" -> "Overseerr"
    [] OTHER -> s

\* the spellings under which a message names a service
NamesOf(s) == {s, DisplayName(s)}

\* services.filter(s => s.url && s.apiKey), as a sequence in declared order
configuredServices(cl) == SelectSeqBy(services, cl)

(***************************************************************************)
(* Tool names.                                                             *)
(***************************************************************************)
ConfigActions ==
  <<"get_quality_profiles", "get_health", "get_root_folders",
    "get_download_clients", "get_naming", "get_tags", "review_setup">>

ConfigToolName(s, act) == s \o "_" \o act

\* addConfigTools(serviceName, displayName): the seven generated tools
addConfigTools(s) == [i \in DOMAIN ConfigActions |-> ConfigToolName(s, ConfigActions[i])]

ReviewTools == {ConfigToolName(s, "review_setup") : s \in Range(LibraryServices)}

SingleConfigTools ==
  {ConfigToolName(s, act) : s \in Range(LibraryServices),
                            act \in Range(ConfigActions) \ {"review_setup"}}

\* name.split('_')[0] of a generated configuration tool
ConfigToolService(n) ==
  CHOOSE s \in Range(LibraryServices) : \E act \in Range(ConfigActions) : n = ConfigToolName(s, act)

ConfigToolAction(n) ==
  CHOOSE act \in Range(ConfigActions) : \E s \in Range(LibraryServices) : n = ConfigToolName(s, act)

\* the backend operation behind a single-call configuration tool
ConfigOp(s, act) ==
  CASE act = "get_quality_profiles" -> "getQualityProfiles"
    [] act = "get_health" -> "getHealth"
    [] act = "get_root_folders" ->
         IF s \in {"sonarr", "radarr"} THEN "getDiskSpace" ELSE "getRootFoldersDetailed"
    [] act = "get_download_clients" -> "getDownloadClients"
    [] act = "get_naming" -> "getNamingConfig"
    [] act = "get_tags" -> "getTags"

(***************************************************************************)
(* The per-service tools with a handler of one or two sequential backend   *)
(* calls.  Each row: name, service whose client is checked ("trash" for    *)
(* the reference-data client, which always exists), how the handler reads  *)
(* its arguments ("none": not at all, "safe": args?.x, "unsafe": args.x or *)
(* a destructuring, which throws a TypeError when args is undefined), the  *)
(* backend operations in call order, the argument fields handed to the     *)
(* first operation, the fields dereferenced after the last operation, and  *)
(* the fields the input schema declares as required.                       *)
(***************************************************************************)
SonarrTools ==
  << <<"sonarr_get_series", "sonarr", "unsafe", <<"getSeries">>, {}, {}, {}>>,
     <<"sonarr_search", "sonarr", "unsafe", <<"searchSeries">>, {"term"}, {}, {"term"}>>,
     <<"sonarr_get_queue", "sonarr", "none", <<"getQueue">>, {}, {}, {}>>,
     <<"sonarr_get_calendar", "sonarr", "safe", <<"getCalendar">>, {}, {}, {}>>,
     <<"sonarr_get_episodes", "sonarr", "unsafe", <<"getEpisodes">>, {"seriesId"}, {}, {"seriesId"}>>,
     <<"sonarr_search_missing", "sonarr", "unsafe", <<"searchMissing">>, {"seriesId"}, {}, {"seriesId"}>>,
     <<"sonarr_search_episode", "sonarr", "unsafe", <<"searchEpisode">>, {"episodeIds"}, {"episodeIds"}, {"episodeIds"}>>,
     <<"sonarr_delete_series", "sonarr", "unsafe", <<"deleteSeries">>, {"seriesId"}, {}, {"seriesId"}>>,
     <<"sonarr_delete_season", "sonarr", "unsafe", <<"getEpisodeFileIds", "deleteEpisodeFiles">>,
       {"seriesId", "seasonNumber"}, {}, {"seriesId", "seasonNumber"}>>,
     <<"sonarr_delete_episode_files", "sonarr", "unsafe", <<"deleteEpisodeFiles">>,
       {"episodeFileIds"}, {"episodeFileIds"}, {"episodeFileIds"}>> >>

RadarrTools ==
  << <<"radarr_get_movies", "radarr", "unsafe", <<"getMovies">>, {}, {}, {}>>,
     <<"radarr_search", "radarr", "unsafe", <<"searchMovies">>, {"term"}, {}, {"term"}>>,
     <<"radarr_get_queue", "radarr", "none", <<"getQueue">>, {}, {}, {}>>,
     <<"radarr_get_calendar", "radarr", "safe", <<"getCalendar">>, {}, {}, {}>>,
     <<"radarr_search_movie", "radarr", "unsafe", <<"searchMovie">>, {"movieId"}, {}, {"movieId"}>>,
     <<"radarr_delete_movie", "radarr", "unsafe", <<"deleteMovie">>, {"movieId"}, {}, {"movieId"}>> >>

LidarrTools ==
  << <<"lidarr_get_artists", "lidarr", "none", <<"getArtists">>, {}, {}, {}>>,
     <<"lidarr_search", "lidarr", "unsafe", <<"searchArtists">>, {"term"}, {}, {"term"}>>,
     <<"lidarr_get_queue", "lidarr", "none", <<"getQueue">>, {}, {}, {}>>,
     <<"lidarr_get_albums", "lidarr", "unsafe", <<"getAlbums">>, {"artistId"}, {}, {"artistId"}>>,
     <<"lidarr_search_album", "lidarr", "unsafe", <<"searchAlbum">>, {"albumId"}, {}, {"albumId"}>>,
     <<"lidarr_search_missing", "lidarr", "unsafe", <<"searchMissingAlbums">>, {"artistId"}, {}, {"artistId"}>>,
     <<"lidarr_get_calendar", "lidarr", "safe", <<"getCalendar">>, {}, {}, {}>> >>

ReadarrTools ==
  << <<"readarr_get_authors", "readarr", "none", <<"getAuthors">>, {}, {}, {}>>,
     <<"readarr_search", "readarr", "unsafe", <<"searchAuthors">>, {"term"}, {}, {"term"}>>,
     <<"readarr_get_queue", "readarr", "none", <<"getQueue">>, {}, {}, {}>>,
     <<"readarr_get_books", "readarr", "unsafe", <<"getBooks">>, {"authorId"}, {}, {"authorId"}>>,
     <<"readarr_search_book", "readarr", "unsafe", <<"searchBook">>, {"bookIds"}, {"bookIds"}, {"bookIds"}>>,
     <<"readarr_search_missing", "readarr", "unsafe", <<"searchMissingBooks">>, {"authorId"}, {}, {"authorId"}>>,
     <<"readarr_get_calendar", "readarr", "safe", <<"getCalendar">>, {}, {}, {}>> >>

ProwlarrTools ==
  << <<"prowlarr_get_indexers", "prowlarr", "none", <<"getIndexers">>, {}, {}, {}>>,
     <<"prowlarr_search", "prowlarr", "unsafe", <<"search">>, {"query"}, {}, {"query"}>>,
     <<"prowlarr_test_indexers", "prowlarr", "none", <<"testAllIndexers", "getIndexers">>, {}, {}, {}>>,
     <<"prowlarr_get_stats", "prowlarr", "none", <<"getIndexerStats">>, {}, {}, {}>> >>

\* tautulli_get_history has its own handler and is not in this table
TautulliSimpleTools ==
  << <<"tautulli_get_activity", "tautulli", "none", <<"get_activity">>, {}, {}, {}>>,
     <<"tautulli_get_libraries", "tautulli", "none", <<"get_libraries">>, {}, {}, {}>>,
     <<"tautulli_get_server_info", "tautulli", "none", <<"get_server_info">>, {}, {}, {}>>,
     <<"tautulli_get_home_stats", "tautulli", "unsafe", <<"get_home_stats">>, {}, {}, {}>>,
     <<"tautulli_get_users", "tautulli", "none", <<"get_users">>, {}, {}, {}>>,
     <<"tautulli_get_recently_added", "tautulli", "unsafe", <<"get_recently_added">>, {}, {}, {}>>,
     <<"tautulli_server_status", "tautulli", "none", <<"server_status">>, {}, {}, {}>>,
     <<"tautulli_terminate_session", "tautulli", "unsafe", <<"terminate_session">>,
       {"session_key", "session_id"}, {}, {"session_key", "session_id"}>> >>

OverseerrTools ==
  << <<"overseerr_get_requests", "overseerr", "unsafe", <<"getRequests">>, {}, {}, {}>>,
     <<"overseerr_get_request_count", "overseerr", "none", <<"getRequestCount">>, {}, {}, {}>>,
     <<"overseerr_get_users", "overseerr", "unsafe", <<"getUsers">>, {}, {}, {}>>,
     <<"overseerr_get_user_requests", "overseerr", "unsafe", <<"getUserRequests">>, {"userId"}, {}, {"userId"}>>,
     <<"overseerr_approve_request", "overseerr", "unsafe", <<"approveRequest">>, {"requestId"}, {}, {"requestId"}>>,
     <<"overseerr_decline_request", "overseerr", "unsafe", <<"declineRequest">>, {"requestId"}, {}, {"requestId"}>>,
     <<"overseerr_search", "overseerr", "unsafe", <<"search">>, {"query"}, {}, {"query"}>>,
     <<"overseerr_status", "overseerr", "none", <<"getStatus">>, {}, {}, {}>> >>

\* the reference-data tools that only talk to the TRaSH client
TrashSimpleTools ==
  << <<"trash_list_profiles", "trash", "unsafe", <<"listProfiles">>, {"service"}, {}, {"service"}>>,
     <<"trash_get_profile", "trash", "unsafe", <<"getProfile">>,
       {"service", "profile"}, {}, {"service", "profile"}>>,
     <<"trash_list_custom_formats", "trash", "unsafe", <<"listCustomFormats">>, {"service"}, {}, {"service"}>>,
     <<"trash_get_naming", "trash", "unsafe", <<"getNaming">>, {"service"}, {}, {"service", "mediaServer"}>>,
     <<"trash_get_quality_sizes", "trash", "unsafe", <<"getQualitySizes">>, {"service"}, {}, {"service"}>> >>

TrashCompareTools == <<"trash_compare_profile", "trash_compare_naming">>

SimpleToolTable ==
  SonarrTools \o RadarrTools \o LidarrTools \o ReadarrTools \o ProwlarrTools
    \o TautulliSimpleTools \o OverseerrTools \o TrashSimpleTools

SimpleToolNames == {SimpleToolTable[i][1] : i \in DOMAIN SimpleToolTable}

Row(n) == SimpleToolTable[CHOOSE i \in DOMAIN SimpleToolTable : SimpleToolTable[i][1] = n]

NamesIn(table) == [i \in DOMAIN table |-> table[i][1]]


(***************************************************************************)
(* The advertised tool list, built once at startup.                        *)
(***************************************************************************)
RECURSIVE ConfigToolsOf(_, _)
\* if (clients.sonarr) addConfigTools('sonarr', ...); ... for the four library families
ConfigToolsOf(svcs, cl) ==
  IF svcs = <<>> THEN <<>>
  ELSE (IF Head(svcs) \in cl THEN addConfigTools(Head(svcs)) ELSE <<>>)
         \o ConfigToolsOf(Tail(svcs), cl)

TautulliToolNames ==
  <<"tautulli_get_activity", "tautulli_get_history">> \o Tail(NamesIn(TautulliSimpleTools))

StaticTrashTools == NamesIn(TrashSimpleTools) \o TrashCompareTools

\* BuildTools with the TRaSH tools pushed only when Radarr or Sonarr is configured
BuildToolsTrashConditional(cl) ==
  <<"arr_status">>
    \o ConfigToolsOf(LibraryServices, cl)
    \o (IF "sonarr" \in cl THEN NamesIn(SonarrTools) ELSE <<>>)
    \o (IF "radarr" \in cl THEN NamesIn(RadarrTools) ELSE <<>>)
    \o (IF "lidarr" \in cl THEN NamesIn(LidarrTools) ELSE <<>>)
    \o (IF "readarr" \in cl THEN NamesIn(ReadarrTools) ELSE <<>>)
    \o (IF "prowlarr" \in cl THEN NamesIn(ProwlarrTools) ELSE <<>>)
    \o (IF "tautulli" \in cl THEN TautulliToolNames ELSE <<>>)
    \o (IF "overseerr" \in cl THEN NamesIn(OverseerrTools) ELSE <<>>)
    \o <<"arr_search_all">>
    \o (IF cl \cap {"radarr", "sonarr"} # {} THEN StaticTrashTools ELSE <<>>)

\* the TOOLS array after all the conditional TOOLS.push calls
BuildTools(cl) ==
  <<"arr_status">>
    \o ConfigToolsOf(LibraryServices, cl)
    \o (IF "sonarr" \in cl THEN NamesIn(SonarrTools) ELSE <<>>)
    \o (IF "radarr" \in cl THEN NamesIn(RadarrTools) ELSE <<>>)
    \o (IF "lidarr" \in cl THEN NamesIn(LidarrTools) ELSE <<>>)
    \o (IF "readarr" \in cl THEN NamesIn(ReadarrTools) ELSE <<>>)
    \o (IF "prowlarr" \in cl THEN NamesIn(ProwlarrTools) ELSE <<>>)
    \o (IF "tautulli" \in cl THEN TautulliToolNames ELSE <<>>)
    \o (IF "overseerr" \in cl THEN NamesIn(OverseerrTools) ELSE <<>>)
    \o <<"arr_search_all">>
    \o StaticTrashTools

\* every tool name a registry with all seven services advertises
FullToolSet == Range(BuildTools(AllServices))

\* HandledNames with the case labels of the single-call configuration tools left out
HandledNamesNoConfig ==
  {"arr_status", "arr_search_all", "tautulli_get_history"}
    \cup ReviewTools \cup SimpleToolNames \cup Range(TrashCompareTools)

\* the case labels of the call-tool handler's switch
HandledNames ==
  {"arr_status", "arr_search_all", "tautulli_get_history"}
    \cup SingleConfigTools \cup ReviewTools \cup SimpleToolNames \cup Range(TrashCompareTools)

\* the service a per-service tool belongs to ("none" for the cross-service tools)
ToolService(n) ==
  IF n \in SingleConfigTools \cup ReviewTools THEN ConfigToolService(n)
  ELSE IF n = "tautulli_get_history" THEN "tautulli"
  ELSE IF n \in SimpleToolNames /\ Row(n)[2] # "trash" THEN Row(n)[2]
  ELSE "none"

\* the fields a tool's inputSchema lists under required
Required(n) ==
  IF n \in SimpleToolNames THEN Row(n)[7]
  ELSE IF n = "arr_search_all" THEN {"term"}
  ELSE IF n = "trash_compare_profile" THEN {"service", "profileId", "trashProfile"}
  ELSE IF n = "trash_compare_naming" THEN {"service", "mediaServer"}
  ELSE {}

(***************************************************************************)
(* Argument bags.  given = FALSE is a request without arguments; bag maps  *)
(* the fields that are present to their values.                            *)
(***************************************************************************)
EmptyBag == [k \in {} |-> 0]

NoArgs == [given |-> FALSE, bag |-> EmptyBag]

Given(b) == [given |-> TRUE, bag |-> b]

Has(a, k) == a.given /\ k \in DOMAIN a.bag

\* the object literal {k: args.k, ...} for the fields in ks; an undefined member is left out
Pass(a, ks) == [k \in (ks \cap DOMAIN a.bag) |-> a.bag[k]]

Sample(k) ==
  CASE k \in {"term", "query"} -> "dune"
    [] k \in {"profile", "trashProfile"} -> "HD Bluray + WEB"
    [] k = "mediaServer" -> "plex"
    [] k \in {"session_key", "session_id"} -> "s1"
    [] OTHER -> 1

SampleBag(ks) == [k \in ks |-> Sample(k)]

TrashServiceEnum == {"radarr", "sonarr"}

TitleInputs == {"Dune", " Dune ", "  "}

\* String.prototype.trim on the titles tried
Trim(t) ==
  CASE t = " Dune " -> "Dune"
    [] t = "  " -> ""
    [] OTHER -> t

LengthInputs == (-1 .. 2) \cup ((ReturnCap - 1) .. MaxLength)

RowCounts == (0 .. 2) \cup ((ReturnCap - 1) .. MaxRows)

OptBag(k, vals) == {EmptyBag} \cup {[x \in {k} |-> v] : v \in vals}

\* the argument bags tried for a tool
ArgsFor(n) ==
  {NoArgs} \cup
  IF n = "tautulli_get_history"
    THEN {Given(t @@ l) : t \in OptBag("title", TitleInputs), l \in OptBag("length", LengthInputs)}
  ELSE IF "service" \in Required(n)
    THEN {Given(s @@ SampleBag(ks)) : s \in OptBag("service", TrashServiceEnum),
                                       ks \in SUBSET (Required(n) \ {"service"})}
  ELSE {Given(SampleBag(ks)) : ks \in SUBSET Required(n)}

UnknownNames == {"no_such_tool", "prowlarr_get_health", "arr_search"}

\* the tool names tried: every name some registry advertises, and names of no tool
ToolInputs == FullToolSet \cup UnknownNames

(***************************************************************************)
(* Backend calls and handler outcomes.                                     *)
(***************************************************************************)
NewCall(svc, op, params) ==
  [svc |-> svc, op |-> op, params |-> params, st |-> "pending", n |-> 0, m |-> 0]

\* the message of the Error a client operation rejects with
BackendError(c) == <<DisplayName(c.svc), "API error:", c.op>>

TypeError == <<"TypeError:", "Cannot read properties of undefined">>

NotConfigured(who) == <<who, "not configured">>

Await == [tag |-> "await", isError |-> FALSE, text |-> <<>>, payload |-> <<>>]

Return(payload) == [tag |-> "return", isError |-> FALSE, text |-> <<>>, payload |-> payload]

ReturnError(payload) == [tag |-> "return", isError |-> TRUE, text |-> <<>>, payload |-> payload]

Throw(msg) == [tag |-> "throw", isError |-> FALSE, text |-> msg, payload |-> <<>>]

\* the handler's position, call log, accumulator and outcome after a run of synchronous code
H(i, cs, a, out) == [ip |-> i, calls |-> cs, acc |-> a, out |-> out]

NoResult == [kind |-> "none", isError |-> FALSE, text |-> <<>>, payload |-> <<>>]

\* CatchBoundary without the catch clause: a thrown error leaves the handler
CatchBoundaryRethrow(out) ==
  IF out.tag = "throw"
    THEN [kind |-> "escaped", isError |-> FALSE, text |-> out.text, payload |-> <<>>]
    ELSE [kind |-> "returned", isError |-> out.isError, text |-> <<>>, payload |-> out.payload]

\* try { switch ... } catch (error) { return { content: "Error: " + message, isError: true } }
CatchBoundary(out) ==
  IF out.tag = "throw"
    THEN [kind |-> "returned", isError |-> TRUE, text |-> <<"Error:">> \o out.text, payload |-> <<>>]
    ELSE [kind |-> "returned", isError |-> out.isError, text |-> <<>>, payload |-> out.payload]


(***************************************************************************)
(* Ordered JSON objects.                                                   *)
(***************************************************************************)
Keys(obj) == [i \in DOMAIN obj |-> obj[i][1]]

HasKey(obj, k) == \E i \in DOMAIN obj : obj[i][1] = k

Get(obj, k) == obj[CHOOSE i \in DOMAIN obj : obj[i][1] = k][2]

\* obj[k] = v: replaces the value in place, or appends a new member
Put(obj, k, v) ==
  IF HasKey(obj, k)
    THEN [i \in DOMAIN obj |-> IF obj[i][1] = k THEN <<k, v>> ELSE obj[i]]
    ELSE Append(obj, <<k, v>>)

(***************************************************************************)
(* Handlers with one or two sequential calls.                              *)
(***************************************************************************)
\* case "<service>_<action>": the code up to the first await
SimpleStart(n, a, cl) ==
  LET r == Row(n) IN
  IF r[2] # "trash" /\ r[2] \notin cl
    THEN H(0, <<>>, <<>>, Throw(NotConfigured(DisplayName(r[2]))))
  ELSE IF r[3] = "unsafe" /\ ~a.given
    THEN H(0, <<>>, <<>>, Throw(TypeError))
  ELSE H(1, <<NewCall(r[2], r[4][1], Pass(a, r[5]))>>, <<>>, Await)

\* SimpleContinue with the delete call made for an empty id list too
SimpleContinueDeletesAlways(n, a, i, cs) ==
  LET r == Row(n)
      c == cs[Len(cs)]
  IN
  IF c.st = "err"
    THEN H(i, cs, <<>>, Throw(BackendError(c)))
  ELSE IF n = "sonarr_delete_season" /\ i = 1
    THEN H(2, Append(cs, NewCall(r[2], r[4][2], [k \in {"episodeFileIds"} |-> 1 .. c.n])),
           <<>>, Await)
  ELSE IF n = "sonarr_delete_season"
    THEN H(i, cs, <<>>, Return(<< <<"success", TRUE>>,
                                  <<"deletedFiles", Cardinality(c.params["episodeFileIds"])>> >>))
  ELSE IF i < Len(r[4])
    THEN H(i + 1, Append(cs, NewCall(r[2], r[4][i + 1], EmptyBag)), <<>>, Await)
  ELSE IF ~(r[6] \subseteq DOMAIN a.bag)
    THEN H(i, cs, <<>>, Throw(TypeError))
  ELSE IF n \in {"trash_get_profile", "trash_get_naming"} /\ c.n = 0
    THEN H(i, cs, <<>>, ReturnError(<< <<"error", <<"not found">> >> >>))
  ELSE H(i, cs, <<>>, Return(<< <<"count", c.n>> >>))


\* the code after an await, once the awaited call has settled
SimpleContinue(n, a, i, cs) ==
  LET r == Row(n)
      c == cs[Len(cs)]
  IN
  IF c.st = "err"
    THEN H(i, cs, <<>>, Throw(BackendError(c)))
  ELSE IF n = "sonarr_delete_season" /\ i = 1
    THEN IF c.n = 0
           THEN H(i, cs, <<>>, Return(<< <<"success", TRUE>>, <<"deletedFiles", 0>> >>))
           ELSE H(2, Append(cs, NewCall(r[2], r[4][2], [k \in {"episodeFileIds"} |-> 1 .. c.n])),
                  <<>>, Await)
  ELSE IF n = "sonarr_delete_season"
    THEN H(i, cs, <<>>, Return(<< <<"success", TRUE>>,
                                  <<"deletedFiles", Cardinality(c.params["episodeFileIds"])>> >>))
  ELSE IF i < Len(r[4])
    THEN H(i + 1, Append(cs, NewCall(r[2], r[4][i + 1], EmptyBag)), <<>>, Await)
  ELSE IF ~(r[6] \subseteq DOMAIN a.bag)
    THEN H(i, cs, <<>>, Throw(TypeError))
  ELSE IF n \in {"trash_get_profile", "trash_get_naming"} /\ c.n = 0
    THEN H(i, cs, <<>>, ReturnError(<< <<"error", <<"not found">> >> >>))
  ELSE H(i, cs, <<>>, Return(<< <<"count", c.n>> >>))

(***************************************************************************)
(* Generated single-call configuration tools.                              *)
(***************************************************************************)
\* ConfigStart without the `if (!client) throw` line
ConfigStartUnchecked(n, cl) ==
  H(1, <<NewCall(ConfigToolService(n),
                 ConfigOp(ConfigToolService(n), ConfigToolAction(n)), EmptyBag)>>, <<>>, Await)

\* case "sonarr_get_health": ... const client = clients[name.split('_')[0]]
ConfigStart(n, cl) ==
  LET s == ConfigToolService(n) IN
  IF s \notin cl
    THEN H(0, <<>>, <<>>, Throw(NotConfigured(s)))
    ELSE H(1, <<NewCall(s, ConfigOp(s, ConfigToolAction(n)), EmptyBag)>>, <<>>, Await)

\* ConfigContinue with a failed call sent a second time
ConfigContinueRetry(i, cs) ==
  LET c == cs[Len(cs)] IN
  IF c.st = "err" /\ Len(cs) = 1
    THEN H(i, Append(cs, NewCall(c.svc, c.op, c.params)), <<>>, Await)
  ELSE IF c.st = "err" THEN H(i, cs, <<>>, Throw(BackendError(c)))
  ELSE H(i, cs, <<>>, Return(<< <<"count", c.n>> >>))


ConfigContinue(i, cs) ==
  LET c == cs[Len(cs)] IN
  IF c.st = "err" THEN H(i, cs, <<>>, Throw(BackendError(c)))
  ELSE H(i, cs, <<>>, Return(<< <<"count", c.n>> >>))

(***************************************************************************)
(* Multi-service tools: arr_status and arr_search_all.  Each is a script   *)
(* of steps run in order; a probe step issues one backend call and the     *)
(* handler waits for it before it goes on.                                 *)
(***************************************************************************)
Probe(s, op) == [kind |-> "probe", svc |-> s, op |-> op]

StatusOp(s) == IF s = "tautulli" THEN "server_status" ELSE "getStatus"

\* StatusScript with one loop over services that probes or marks each in turn
StatusScriptOneLoop(cl) ==
  [i \in DOMAIN services |->
     IF services[i] \in cl
       THEN Probe(services[i], "getStatus")
       ELSE [kind |-> "absent", svc |-> services[i], op |-> "none"]]
    \o [i \in DOMAIN OptionalServices |->
          IF OptionalServices[i] \in cl
            THEN Probe(OptionalServices[i], StatusOp(OptionalServices[i]))
            ELSE [kind |-> "absent", svc |-> OptionalServices[i], op |-> "none"]]

\* arr_status: the loop over configuredServices, the loop that adds the
\* unconfigured services, then the Tautulli and the Overseerr block
StatusScript(cl) ==
  [i \in DOMAIN configuredServices(cl) |-> Probe(configuredServices(cl)[i], "getStatus")]
    \o << [kind |-> "fill", svc |-> "none", op |-> "none"] >>
    \o [i \in DOMAIN OptionalServices |->
          IF OptionalServices[i] \in cl
            THEN Probe(OptionalServices[i], StatusOp(OptionalServices[i]))
            ELSE [kind |-> "absent", svc |-> OptionalServices[i], op |-> "none"]]

SearchOp(s) ==
  CASE s = "sonarr" -> "searchSeries"
    [] s = "radarr" -> "searchMovies"
    [] s = "lidarr" -> "searchArtists"
    [] s = "readarr" -> "searchAuthors"

\* arr_search_all: if (clients.sonarr) {...} if (clients.radarr) {...} ...
SearchScript(cl) ==
  LET cfg == SelectSeqBy(LibraryServices, cl)
  IN [i \in DOMAIN cfg |-> Probe(cfg[i], SearchOp(cfg[i]))]

Script(n, cl) == IF n = "arr_status" THEN StatusScript(cl) ELSE SearchScript(cl)

\* FillUnconfigured with the loop body skipped
FillNothing(obj, svcs) == obj

RECURSIVE FillUnconfigured(_, _)
\* for (const service of services) if (!statuses[service.name]) statuses[...] = {configured: false}
FillUnconfigured(obj, svcs) ==
  IF svcs = <<>> THEN obj
  ELSE FillUnconfigured(
         IF HasKey(obj, Head(svcs)) THEN obj ELSE Put(obj, Head(svcs), [configured |-> FALSE]),
         Tail(svcs))

\* ProbeEntry with the catch branch writing the same entry as the try branch
ProbeEntryAlwaysConnected(n, c) ==
  IF n = "arr_status"
    THEN [configured |-> TRUE, connected |-> TRUE]
    ELSE [count |-> c.n]

\* the entry a settled probe leaves under its service's key
ProbeEntry(n, c) ==
  IF n = "arr_status"
    THEN IF c.st = "ok"
           THEN [configured |-> TRUE, connected |-> TRUE]
           ELSE [configured |-> TRUE, connected |-> FALSE, error |-> BackendError(c)]
    ELSE IF c.st = "ok"
           THEN [count |-> c.n]
           ELSE [error |-> BackendError(c)]

RECURSIVE RunScript(_, _, _, _, _)
\* runs the script from step i up to the next await or the return statement
RunScript(sc, i, cs, obj, params) ==
  IF i > Len(sc) THEN H(i, cs, obj, Return(obj))
  ELSE IF sc[i].kind = "probe"
    THEN H(i, Append(cs, NewCall(sc[i].svc, sc[i].op, params)), obj, Await)
  ELSE IF sc[i].kind = "fill"
    THEN RunScript(sc, i + 1, cs, FillUnconfigured(obj, services), params)
  ELSE RunScript(sc, i + 1, cs, Put(obj, sc[i].svc, [configured |-> FALSE]), params)

ScriptParams(n, a) == IF n = "arr_search_all" THEN Pass(a, {"term"}) ELSE EmptyBag

ScriptStart(n, a, cl) ==
  IF n = "arr_search_all" /\ ~a.given
    THEN H(0, <<>>, <<>>, Throw(TypeError))
    ELSE RunScript(Script(n, cl), 1, <<>>, <<>>, ScriptParams(n, a))

\* ScriptContinue without the try/catch around the awaited probe
ScriptContinueUncaught(n, a, cl, i, cs, obj) ==
  IF cs[Len(cs)].st = "err"
    THEN H(i, cs, obj, Throw(BackendError(cs[Len(cs)])))
    ELSE RunScript(Script(n, cl), i + 1, cs,
                   Put(obj, cs[Len(cs)].svc, ProbeEntry(n, cs[Len(cs)])), ScriptParams(n, a))

\* the try/catch around the awaited probe, then the rest of the script
ScriptContinue(n, a, cl, i, cs, obj) ==
  LET c == cs[Len(cs)]
  IN RunScript(Script(n, cl), i + 1, cs, Put(obj, c.svc, ProbeEntry(n, c)), ScriptParams(n, a))


(***************************************************************************)
(* tautulli_get_history.                                                   *)
(***************************************************************************)
\* typeof a.title === 'string' && a.title.trim().length > 0
hasTitle(a) == Has(a, "title") /\ Trim(a.bag["title"]) # ""

\* returnLimit without the `a.length > 0` test
returnLimitUnchecked(a) ==
  IF Has(a, "length") THEN Min(a.bag["length"], ReturnCap) ELSE ReturnCap

\* typeof a.length === 'number' && a.length > 0 ? Math.min(a.length, 100) : 100
returnLimit(a) ==
  IF Has(a, "length") /\ a.bag["length"] > 0 THEN Min(a.bag["length"], ReturnCap) ELSE ReturnCap

\* a.length ?? 25
apiLength(a) == IF Has(a, "length") THEN a.bag["length"] ELSE DefaultHistoryLength

\* the rows of a history answer, in backend order
Rows(n) == [i \in 1 .. n |-> [row |-> i]]

\* HistoryStart with the title passed on as it came, without trim()
HistoryStartUntrimmed(a, cl) ==
  IF "tautulli" \notin cl
    THEN H(0, <<>>, <<>>, Throw(NotConfigured("Tautulli")))
  ELSE IF ~a.given
    THEN H(0, <<>>, <<>>, Throw(TypeError))
  ELSE IF ~hasTitle(a)
    THEN H(1, <<NewCall("tautulli", "get_history",
                        [length |-> apiLength(a), order_column |-> "date", order_dir |-> "desc"])>>,
           <<>>, Await)
  ELSE H(2, <<NewCall("tautulli", "search",
                      [query |-> a.bag["title"], limit |-> LibrarySearchLimit]),
              NewCall("tautulli", "get_history",
                      [length |-> HistorySearchLength, search |-> a.bag["title"],
                       order_column |-> "date", order_dir |-> "desc"])>>,
         <<>>, Await)

\* the handler up to its first await: one history query without a title, the
\* two members of Promise.all with one
HistoryStart(a, cl) ==
  IF "tautulli" \notin cl
    THEN H(0, <<>>, <<>>, Throw(NotConfigured("Tautulli")))
  ELSE IF ~a.given
    THEN H(0, <<>>, <<>>, Throw(TypeError))
  ELSE IF ~hasTitle(a)
    THEN H(1, <<NewCall("tautulli", "get_history",
                        [length |-> apiLength(a), order_column |-> "date", order_dir |-> "desc"])>>,
           <<>>, Await)
  ELSE H(2, <<NewCall("tautulli", "search",
                      [query |-> Trim(a.bag["title"]), limit |-> LibrarySearchLimit]),
              NewCall("tautulli", "get_history",
                      [length |-> HistorySearchLength, search |-> Trim(a.bag["title"]),
                       order_column |-> "date", order_dir |-> "desc"])>>,
         <<>>, Await)

\* HistoryResult with watchedCount taken after the slice instead of before it
HistoryResultCountsEmitted(a, lib, hist) ==
  LET existsInLibrary == lib.st = "ok" /\ (lib.n > 0 \/ lib.m > 0)
      rows == Rows(hist.n)
      history == SubSeq(rows, 1, Min(returnLimit(a), Len(rows)))
  IN << <<"searchedFor", Trim(a.bag["title"])>>,
        <<"existsInLibrary", existsInLibrary>>,
        <<"watchedCount", Len(history)>>,
        <<"returned", Len(history)>>,
        <<"history", history>> >>

\* the correlation of the two probes into the watch-history result
HistoryResult(a, lib, hist) ==
  LET existsInLibrary == lib.st = "ok" /\ (lib.n > 0 \/ lib.m > 0)
      rows == Rows(hist.n)
      history == SubSeq(rows, 1, Min(returnLimit(a), Len(rows)))
  IN << <<"searchedFor", Trim(a.bag["title"])>>,
        <<"existsInLibrary", existsInLibrary>>,
        <<"watchedCount", Len(rows)>>,
        <<"returned", Len(history)>>,
        <<"history", history>> >>

\* HistoryContinue with the library search lacking its catch
HistoryContinueLibraryThrows(a, i, cs, j) ==
  IF i = 1
    THEN IF cs[1].st = "err"
           THEN H(i, cs, <<>>, Throw(BackendError(cs[1])))
           ELSE H(i, cs, <<>>, Return(<< <<"data", cs[1].n>> >>))
  ELSE IF cs[j].st = "err"
    THEN H(i, cs, <<>>, Throw(BackendError(cs[j])))
  ELSE IF cs[1].st # "pending" /\ cs[2].st = "ok"
    THEN H(i, cs, <<>>, Return(HistoryResult(a, cs[1], cs[2])))
  ELSE H(i, cs, <<>>, Await)

\* j is the call that has just settled; Promise.all rejects when the history
\* search rejects and resolves when both members have settled (the library
\* search carries its own catch)
HistoryContinue(a, i, cs, j) ==
  IF i = 1
    THEN IF cs[1].st = "err"
           THEN H(i, cs, <<>>, Throw(BackendError(cs[1])))
           ELSE H(i, cs, <<>>, Return(<< <<"data", cs[1].n>> >>))
  ELSE IF j = 2 /\ cs[2].st = "err"
    THEN H(i, cs, <<>>, Throw(BackendError(cs[2])))
  ELSE IF cs[1].st # "pending" /\ cs[2].st = "ok"
    THEN H(i, cs, <<>>, Return(HistoryResult(a, cs[1], cs[2])))
  ELSE H(i, cs, <<>>, Await)

(***************************************************************************)
(* trash_compare_profile and trash_compare_naming.                         *)
(***************************************************************************)
\* service === 'radarr' ? clients.radarr : clients.sonarr
CompareClient(a) == IF Has(a, "service") /\ a.bag["service"] = "radarr" THEN "radarr" ELSE "sonarr"

\* `${service}` in the handler's messages
ServiceText(a) == IF Has(a, "service") THEN a.bag["service"] ELSE "undefined"

CompareStart(n, a, cl) ==
  IF ~a.given
    THEN H(0, <<>>, <<>>, Throw(TypeError))
  ELSE IF CompareClient(a) \notin cl
    THEN H(0, <<>>, <<>>,
           ReturnError(<< <<"error", <<ServiceText(a), "not configured.",
                                      IF n = "trash_compare_profile"
                                        THEN "Cannot compare profiles."
                                        ELSE "Cannot compare naming.">> >> >>))
  ELSE H(2, <<NewCall(CompareClient(a),
                      IF n = "trash_compare_profile" THEN "getQualityProfiles" ELSE "getNamingConfig",
                      EmptyBag),
              NewCall("trash",
                      IF n = "trash_compare_profile" THEN "getProfile" ELSE "getNaming",
                      Pass(a, IF n = "trash_compare_profile"
                                THEN {"service", "trashProfile"} ELSE {"service"}))>>,
         <<>>, Await)

\* Promise.all([client..., trashClient...]) and the checks that follow it
CompareContinue(n, i, cs, j) ==
  IF cs[j].st = "err"
    THEN H(i, cs, <<>>, Throw(BackendError(cs[j])))
  ELSE IF \E k \in DOMAIN cs : cs[k].st # "ok"
    THEN H(i, cs, <<>>, Await)
  ELSE IF n = "trash_compare_profile" /\ cs[1].n = 0
    THEN H(i, cs, <<>>, ReturnError(<< <<"error", <<"Profile ID", "not found">> >> >>))
  ELSE IF cs[2].n = 0
    THEN H(i, cs, <<>>, ReturnError(<< <<"error", <<"TRaSH", "not found">> >> >>))
  ELSE H(i, cs, <<>>, Return(<< <<"comparison", cs[1].n>> >>))

(***************************************************************************)
(* <service>_review_setup.                                                 *)
(***************************************************************************)
ReviewOps ==
  <<"getStatus", "getHealth", "getQualityProfiles", "getQualityDefinitions",
    "getDownloadClients", "getNamingConfig", "getMediaManagement",
    "getRootFoldersDetailed", "getTags", "getIndexers">>

ReviewStart(n, cl) ==
  LET s == ConfigToolService(n) IN
  IF s \notin cl
    THEN H(0, <<>>, <<>>, Throw(NotConfigured(s)))
    ELSE H(1, [i \in DOMAIN ReviewOps |-> NewCall(s, ReviewOps[i], EmptyBag)], <<>>, Await)

\* ReviewContinue with failures left out of the review instead of thrown
ReviewContinuePartial(n, i, cs, j) ==
  LET s == ConfigToolService(n) IN
  IF \E k \in DOMAIN cs : cs[k].st = "pending"
    THEN H(i, cs, <<>>, Await)
  ELSE IF i = 1 /\ s \in {"lidarr", "readarr"}
    THEN H(2, Append(cs, NewCall(s, "getMetadataProfiles", EmptyBag)), <<>>, Await)
  ELSE H(i, cs, <<>>, Return(<< <<"service", s>> >>))


\* Promise.all of the ten calls, then the metadata profiles of Lidarr and Readarr
ReviewContinue(n, i, cs, j) ==
  LET s == ConfigToolService(n) IN
  IF cs[j].st = "err"
    THEN H(i, cs, <<>>, Throw(BackendError(cs[j])))
  ELSE IF \E k \in DOMAIN cs : cs[k].st # "ok"
    THEN H(i, cs, <<>>, Await)
  ELSE IF i = 1 /\ s \in {"lidarr", "readarr"}
    THEN H(2, Append(cs, NewCall(s, "getMetadataProfiles", EmptyBag)), <<>>, Await)
  ELSE H(i, cs, <<>>, Return(<< <<"service", s>> >>))

(***************************************************************************)
(* The call-tool handler.                                                  *)
(***************************************************************************)
\* switch (name): the code of the matching case up to its first await
Start(n, a, cl) ==
  IF n \notin HandledNames THEN H(0, <<>>, <<>>, Throw(<<"Unknown tool:", n>>))
  ELSE IF n \in {"arr_status", "arr_search_all"} THEN ScriptStart(n, a, cl)
  ELSE IF n \in SingleConfigTools THEN ConfigStart(n, cl)
  ELSE IF n \in ReviewTools THEN ReviewStart(n, cl)
  ELSE IF n = "tautulli_get_history" THEN HistoryStart(a, cl)
  ELSE IF n \in Range(TrashCompareTools) THEN CompareStart(n, a, cl)
  ELSE SimpleStart(n, a, cl)

\* Continue with the watch-history result built as soon as the history search
\* has answered, without waiting for the library search
ContinueHistoryFirst(n, a, cl, i, cs, obj, j) ==
  IF n = "tautulli_get_history" /\ i = 2 /\ j = 2 /\ cs[2].st = "ok"
    THEN H(i, cs, <<>>, Return(HistoryResult(a, cs[1], cs[2])))
  ELSE IF n \in {"arr_status", "arr_search_all"} THEN ScriptContinue(n, a, cl, i, cs, obj)
  ELSE IF n \in SingleConfigTools THEN ConfigContinue(i, cs)
  ELSE IF n \in ReviewTools THEN ReviewContinue(n, i, cs, j)
  ELSE IF n = "tautulli_get_history" THEN HistoryContinue(a, i, cs, j)
  ELSE IF n \in Range(TrashCompareTools) THEN CompareContinue(n, i, cs, j)
  ELSE SimpleContinue(n, a, i, cs)

\* the code of the case that runs when call j has settled
Continue(n, a, cl, i, cs, obj, j) ==
  IF n \in {"arr_status", "arr_search_all"} THEN ScriptContinue(n, a, cl, i, cs, obj)
  ELSE IF n \in SingleConfigTools THEN ConfigContinue(i, cs)
  ELSE IF n \in ReviewTools THEN ReviewContinue(n, i, cs, j)
  ELSE IF n = "tautulli_get_history" THEN HistoryContinue(a, i, cs, j)
  ELSE IF n \in Range(TrashCompareTools) THEN CompareContinue(n, i, cs, j)
  ELSE SimpleContinue(n, a, i, cs)

\* the payloads <<n, m>> a successful call may answer with
Payloads(c) ==
  IF c.svc = "tautulli" /\ c.op = "get_history" /\ "search" \in DOMAIN c.params
    THEN {<<k, 0>> : k \in RowCounts}
  ELSE IF c.svc = "tautulli" /\ c.op = "search"
    THEN {<<0, 0>>, <<1, 0>>, <<0, 1>>, <<1, 1>>}
  ELSE IF c.op = "getEpisodeFileIds"
    THEN {<<k, 0>> : k \in 0 .. MaxIds}
  ELSE IF c.svc = "trash" /\ c.op \in {"getProfile", "getNaming"}
    THEN {<<0, 0>>, <<1, 0>>}
  ELSE IF c.op = "getQualityProfiles"
    THEN {<<0, 0>>, <<1, 0>>}
  ELSE {<<1, 0>>}

\* the registries the model starts from: every set of services that has a member
Configs == SUBSET AllServices \ {{}}

\* the order in which the backend answers: the calls of a review tool are
\* answered in the order they were issued, the calls of every other tool in any order
AnswerOrder(j) == name \in ReviewTools => \A k \in 1 .. (j - 1) : calls[k].st # "pending"

Init ==
  /\ clients \in Configs
  /\ TOOLS = BuildTools(clients)
  /\ pc = "idle"
  /\ name = ""
  /\ args = NoArgs
  /\ ip = 0
  /\ calls = <<>>
  /\ acc = <<>>
  /\ result = NoResult
  /\ ExtIdle

\* Dispatch with the requested name added to the advertised tools
DispatchRegisters(n, a) ==
  /\ pc = "idle"
  /\ LET h == Start(n, a, clients) IN
       /\ name' = n
       /\ args' = a
       /\ ip' = h.ip
       /\ calls' = h.calls
       /\ acc' = h.acc
       /\ pc' = IF h.out.tag = "await" THEN "await" ELSE "done"
       /\ result' = IF h.out.tag = "await" THEN NoResult ELSE CatchBoundary(h.out)
  /\ TOOLS' = IF Len(TOOLS) = Len(BuildTools(clients)) THEN Append(TOOLS, n) ELSE TOOLS
  /\ UNCHANGED clients


\* the handler's run from the arrival of a request to its first await or to its end
Dispatch(n, a) ==
  /\ pc = "idle"
  /\ LET h == Start(n, a, clients) IN
       /\ name' = n
       /\ args' = a
       /\ ip' = h.ip
       /\ calls' = h.calls
       /\ acc' = h.acc
       /\ pc' = IF h.out.tag = "await" THEN "await" ELSE "done"
       /\ result' = IF h.out.tag = "await" THEN NoResult ELSE CatchBoundary(h.out)
  /\ UNCHANGED <<clients, TOOLS>>

\* a call-tool request arrives
Invoke(n, a) == Dispatch(n, a) /\ UNCHANGED extVars

Settled(cs, j, st, p) == [cs EXCEPT ![j].st = st, ![j].n = p[1], ![j].m = p[2]]

\* the handler's next stretch of code after call j of the log cs has settled
Resume(cs, j) ==
  LET h == Continue(name, args, clients, ip, cs, acc, j) IN
    /\ ip' = h.ip
    /\ calls' = h.calls
    /\ acc' = h.acc
    /\ pc' = IF h.out.tag = "await" THEN "await" ELSE "done"
    /\ result' = IF h.out.tag = "await" THEN NoResult ELSE CatchBoundary(h.out)

\* backend call j succeeds with payload p while the handler is waiting
SettleOk(j, p) ==
  /\ pc = "await"
  /\ j \in DOMAIN calls
  /\ calls[j].st = "pending"
  /\ AnswerOrder(j)
  /\ p \in Payloads(calls[j])
  /\ Resume(Settled(calls, j, "ok", p), j)
  /\ UNCHANGED <<clients, TOOLS, name, args, extVars>>

\* backend call j fails while the handler is waiting
SettleErr(j) ==
  /\ pc = "await"
  /\ j \in DOMAIN calls
  /\ calls[j].st = "pending"
  /\ AnswerOrder(j)
  /\ Resume(Settled(calls, j, "err", <<0, 0>>), j)
  /\ UNCHANGED <<clients, TOOLS, name, args, extVars>>

\* Orphan with the call aborted when the handler has returned
OrphanCancelled(j) ==
  /\ pc = "done"
  /\ j \in DOMAIN calls
  /\ calls[j].st = "pending"
  /\ AnswerOrder(j)
  /\ calls' = Settled(calls, j, "cancelled", <<0, 0>>)
  /\ UNCHANGED <<clients, TOOLS, pc, name, args, ip, acc, result>>


\* a call that settles after the handler has returned: nothing reads its outcome
Orphan(j) ==
  /\ pc = "done"
  /\ j \in DOMAIN calls
  /\ calls[j].st = "pending"
  /\ AnswerOrder(j)
  /\ calls' = Settled(calls, j, "late", <<0, 0>>)
  /\ UNCHANGED <<clients, TOOLS, pc, name, args, ip, acc, result>>

\* backend call j settles after the handler has returned
SettleLate(j) == Orphan(j) /\ UNCHANGED extVars

\* the handler's state is dropped once its result has gone out
Release ==
  /\ pc = "done"
  /\ pc' = "idle"
  /\ name' = ""
  /\ args' = NoArgs
  /\ ip' = 0
  /\ calls' = <<>>
  /\ acc' = <<>>
  /\ result' = NoResult
  /\ UNCHANGED <<clients, TOOLS>>

\* the result has gone out to the caller; the server is ready for the next request
Respond == Release /\ UNCHANGED extVars

Next ==
  \/ \E n \in ToolInputs : \E a \in ArgsFor(n) : Invoke(n, a)
  \/ \E j \in DOMAIN calls : \E p \in Payloads(calls[j]) : SettleOk(j, p)
  \/ \E j \in DOMAIN calls : SettleErr(j)
  \/ \E j \in DOMAIN calls : SettleLate(j)
  \/ Respond

Spec == Init /\ [][Next]_vars

(***************************************************************************)
(* Observations used by the properties.                                    *)
(***************************************************************************)
Done == pc = "done"

\* the message of a failure result: the text after "Error:", or the error member of the payload
MessageOf(r) ==
  IF r.text # <<>> THEN Tail(r.text)
  ELSE IF HasKey(r.payload, "error") THEN Get(r.payload, "error")
  ELSE <<>>

NamesService(r, s) == \E t \in NamesOf(s) : t \in Range(MessageOf(r))

IsUnknownTool(r) == r.isError /\ Len(r.text) >= 2 /\ r.text[2] = "Unknown tool:"

\* the service a per-service invocation is aimed at ("none" when there is none)
TargetService(n, a) ==
  IF n \in Range(TrashCompareTools)
    THEN IF Has(a, "service") THEN a.bag["service"] ELSE "none"
    ELSE ToolService(n)

NoDuplicates(s) == \A i, j \in DOMAIN s : s[i] = s[j] => i = j


PresentFields(a) == IF a.given THEN DOMAIN a.bag ELSE {}

(***************************************************************************)
(* C1: whatever the tool name and the arguments (absent ones included),    *)
(* the call-tool handler returns a result and lets no exception escape:    *)
(* the result is a success payload, or a result flagged isError that       *)
(* carries a message.                                                      *)
(***************************************************************************)
C1_AlwaysAResult ==
  /\ result.kind # "escaped"
  /\ Done => /\ result.kind = "returned"
             /\ result.isError => MessageOf(result) # <<>>
             /\ ~result.isError => result.text = <<>>

\* an invocation without arguments whose TypeError came back as an error result
C1_Witness ==
  /\ Done
  /\ ~args.given
  /\ result.isError
  /\ result.text = <<"Error:">> \o TypeError

(***************************************************************************)
(* C2: a per-service tool (or a trash_compare tool aimed at a service)     *)
(* invoked while that service has no client yields a failure result whose  *)
(* message names the service, and no backend call is issued.               *)
(***************************************************************************)
C2_UnconfiguredService ==
  LET s == TargetService(name, args) IN
    (pc # "idle" /\ s \in AllServices /\ s \notin clients)
      => /\ Done
         /\ result.isError
         /\ NamesService(result, s)
         /\ calls = <<>>

\* a generated configuration tool invoked for a service that is not configured
C2_Witness ==
  /\ Done
  /\ name \in SingleConfigTools
  /\ ConfigToolService(name) \notin clients
  /\ result.isError

(***************************************************************************)
(* C3 as stated: every invocation whose name is not in the advertised tool *)
(* list fails with UnknownTool, the tools of an unconfigured service       *)
(* included.                                                               *)
(***************************************************************************)
C3_Original ==
  (Done /\ name \notin Range(TOOLS)) => IsUnknownTool(result)

(***************************************************************************)
(* C3 amended: a name fails with UnknownTool exactly when no registry      *)
(* would advertise it; the name of a tool of a service that is not         *)
(* configured (so not advertised now) fails with that service's            *)
(* not-configured error instead, without a backend call.                   *)
(***************************************************************************)
C3_StaticValidation ==
  Done =>
    /\ IsUnknownTool(result) <=> name \notin FullToolSet
    /\ name \in FullToolSet \ Range(TOOLS)
         => /\ result.isError
            /\ NamesService(result, ToolService(name))
            /\ calls = <<>>

\* a tool that is not advertised, because its service is not configured, and is not unknown
C3_Witness ==
  /\ Done
  /\ name \in FullToolSet \ Range(TOOLS)
  /\ ~IsUnknownTool(result)

(***************************************************************************)
(* C4 as stated: an invocation that omits an argument its tool declares    *)
(* as required fails with an error result and issues no backend call.      *)
(* (The service is configured, so that the argument is what decides.)      *)
(***************************************************************************)
C4_RequiredArguments ==
  (/\ pc # "idle"
   /\ name \in HandledNames
   /\ ToolService(name) \in clients \cup {"none"}
   /\ ~(Required(name) \subseteq PresentFields(args)))
    => /\ Done
       /\ result.isError
       /\ calls = <<>>


\* the fixed declared service order: the *arr families, then the optional services
DeclaredOrder == services \o OptionalServices

Position(s) == CHOOSE i \in DOMAIN DeclaredOrder : DeclaredOrder[i] = s

InDeclaredOrder(ks) ==
  \A i, j \in DOMAIN ks : i < j => Position(ks[i]) < Position(ks[j])

StatusDone == Done /\ name = "arr_status"

SearchAllDone == Done /\ name = "arr_search_all" /\ args.given

(***************************************************************************)
(* C5: the arr_status result has exactly seven entries, one per *arr       *)
(* family and one per optional service, whichever services are configured  *)
(* and reachable; an unconfigured service is reported as                   *)
(* {configured: false}.                                                    *)
(***************************************************************************)
C5_StatusSevenEntries ==
  StatusDone =>
    /\ ~result.isError
    /\ Len(result.payload) = Cardinality(AllServices)
    /\ Range(Keys(result.payload)) = AllServices
    /\ \A s \in AllServices :
         (s \notin clients) <=> (Get(result.payload, s) = [configured |-> FALSE])

\* an arr_status answer with an unconfigured *arr family and a failed probe
C5_Witness ==
  /\ StatusDone
  /\ \E s \in Range(services) : s \notin clients
  /\ \E j \in DOMAIN calls : calls[j].st = "err"

(***************************************************************************)
(* C6: in arr_status a configured backend whose probe fails is reported as *)
(* {configured: true, connected: false, error: message} under its own key, *)
(* every other configured backend is still probed and reported, and the    *)
(* invocation is never an error result.                                    *)
(***************************************************************************)
C6_StatusIsolatesFailures ==
  StatusDone =>
    /\ ~result.isError
    /\ \A s \in clients : \E j \in DOMAIN calls : calls[j].svc = s /\ calls[j].st \in {"ok", "err"}
    /\ \A j \in DOMAIN calls :
         Get(result.payload, calls[j].svc) =
           IF calls[j].st = "err"
             THEN [configured |-> TRUE, connected |-> FALSE, error |-> BackendError(calls[j])]
             ELSE [configured |-> TRUE, connected |-> TRUE]

\* a failed probe followed by a successful probe of another backend
C6_Witness ==
  /\ StatusDone
  /\ \E j, k \in DOMAIN calls : j < k /\ calls[j].st = "err" /\ calls[k].st = "ok"

(***************************************************************************)
(* C7: the keys of the arr_search_all result are exactly the configured    *)
(* library backends, whatever subset of the searches fails: a failing      *)
(* backend contributes {error: message} under its own key and every other  *)
(* backend's count entry is present.                                       *)
(***************************************************************************)
C7_SearchAllKeys ==
  SearchAllDone =>
    /\ ~result.isError
    /\ Range(Keys(result.payload)) = clients \cap Range(LibraryServices)
    /\ NoDuplicates(Keys(result.payload))
    /\ Range(Keys(result.payload)) = {calls[j].svc : j \in DOMAIN calls}
    /\ \A j \in DOMAIN calls :
         Get(result.payload, calls[j].svc) =
           IF calls[j].st = "err"
             THEN [error |-> BackendError(calls[j])]
             ELSE [count |-> calls[j].n]

\* a failed search followed by a successful search of another backend
C7_Witness ==
  /\ SearchAllDone
  /\ \E j, k \in DOMAIN calls : j < k /\ calls[j].st = "err" /\ calls[k].st = "ok"

(***************************************************************************)
(* C8 as stated: the keys of the arr_status and arr_search_all results     *)
(* come in the fixed declared service order (sonarr, radarr, lidarr,       *)
(* readarr, prowlarr, tautulli, overseerr), whichever backends are         *)
(* configured and whichever fail.                                          *)
(***************************************************************************)
C8_Original ==
  (StatusDone \/ SearchAllDone) => InDeclaredOrder(Keys(result.payload))

(***************************************************************************)
(* C8 amended: the key order is fixed by the registry alone, whichever     *)
(* backends fail: arr_search_all emits the configured library backends in  *)
(* declared order; arr_status emits the configured *arr families in        *)
(* declared order, then the unconfigured *arr families in declared order,  *)
(* then tautulli, then overseerr.                                          *)
(***************************************************************************)
C8_ConfiguredFirstOrder ==
  /\ StatusDone =>
       Keys(result.payload) =
         SelectSeqBy(services, clients)
           \o SelectSeqBy(services, Range(services) \ clients)
           \o OptionalServices
  /\ SearchAllDone =>
       Keys(result.payload) = SelectSeqBy(LibraryServices, clients)

\* an arr_status answer in which a configured family comes after an unconfigured one in declared order
C8_Witness ==
  /\ StatusDone
  /\ \E s, t \in Range(services) :
       s \notin clients /\ t \in clients /\ Position(s) < Position(t)
  /\ \E j \in DOMAIN calls : calls[j].st = "err"

HistoryTitleDone ==
  Done /\ name = "tautulli_get_history" /\ "tautulli" \in clients /\ hasTitle(args)

(***************************************************************************)
(* C9: in tautulli_get_history with a title, a failed library search does  *)
(* not abort the invocation (existsInLibrary is false and the history is   *)
(* returned), while a failed history search makes the invocation an error  *)
(* result.                                                                 *)
(***************************************************************************)
C9_HistoryFailurePolicy ==
  HistoryTitleDone =>
    /\ calls[2].st = "err"
         => result.isError /\ result.text = <<"Error:">> \o BackendError(calls[2])
    /\ calls[2].st = "ok"
         => /\ ~result.isError
            /\ Get(result.payload, "watchedCount") = calls[2].n
            /\ Len(Get(result.payload, "history")) = Get(result.payload, "returned")
            /\ calls[1].st = "err" => Get(result.payload, "existsInLibrary") = FALSE

\* the library search failed, the history search answered with rows
C9_Witness ==
  /\ HistoryTitleDone
  /\ calls[1].st = "err"
  /\ calls[2].st = "ok"
  /\ calls[2].n > 0
  /\ Get(result.payload, "returned") > 0

(***************************************************************************)
(* C10: in tautulli_get_history with a title, the emitted history is the   *)
(* first min(length, 100) rows of the history answer in backend order, so  *)
(* returned exceeds neither 100 nor the requested length; a length that is *)
(* absent or not positive counts as 100.                                   *)
(***************************************************************************)
C10_HistoryWindow ==
  (HistoryTitleDone /\ ~result.isError) =>
    LET requested == IF Has(args, "length") /\ args.bag["length"] >= 1
                       THEN args.bag["length"] ELSE 100
        window == Min(Min(requested, 100), calls[2].n)
        history == Get(result.payload, "history")
    IN /\ Get(result.payload, "returned") = window
       /\ Len(history) = window
       /\ \A i \in 1 .. window : history[i] = [row |-> i]
       /\ Get(result.payload, "returned") <= 100
       /\ Has(args, "length") /\ args.bag["length"] >= 1
            => Get(result.payload, "returned") <= args.bag["length"]

\* more than 100 rows answered and a length of 0 requested: 100 rows emitted
C10_Witness ==
  /\ HistoryTitleDone
  /\ ~result.isError
  /\ calls[2].n > ReturnCap
  /\ Has(args, "length")
  /\ args.bag["length"] <= 0
  /\ Get(result.payload, "returned") = ReturnCap

(***************************************************************************)
(* C11: in tautulli_get_history with a title whose history search answers, *)
(* watchedCount is the number of rows the search returned, whatever the    *)
(* row cap; returned is the length of the emitted history and is at most   *)
(* watchedCount; zero rows give a success result with watchedCount 0 and   *)
(* an empty history, and with zero library matches as well existsInLibrary *)
(* is false.                                                               *)
(***************************************************************************)
C11_WatchedCount ==
  (HistoryTitleDone /\ calls[2].st = "ok") =>
    LET p == result.payload IN
      /\ ~result.isError
      /\ Get(p, "watchedCount") = Len(Rows(calls[2].n))
      /\ Get(p, "returned") = Len(Get(p, "history"))
      /\ Get(p, "returned") <= Get(p, "watchedCount")
      /\ calls[2].n = 0 => Get(p, "watchedCount") = 0 /\ Get(p, "history") = <<>>
      /\ (calls[2].n = 0 /\ calls[1].st = "ok" /\ calls[1].n = 0 /\ calls[1].m = 0)
           => Get(p, "existsInLibrary") = FALSE

\* the search returned more rows than the cap lets through: all of them are counted
C11_Witness ==
  /\ HistoryTitleDone
  /\ calls[2].st = "ok"
  /\ calls[2].n > ReturnCap
  /\ Get(result.payload, "watchedCount") = calls[2].n
  /\ Get(result.payload, "returned") = ReturnCap

(***************************************************************************)
(* C12: an invocation of tautulli_get_history that supplies no title       *)
(* filter (title absent, empty or blank) makes exactly one backend call,   *)
(* an unfiltered history query with the caller's length or the default 25, *)
(* issues no library search, and returns the backend payload as it is.     *)
(***************************************************************************)
C12_NoTitleSingleQuery ==
  (name = "tautulli_get_history" /\ "tautulli" \in clients /\ pc # "idle" /\ ~hasTitle(args)) =>
    /\ Len(calls) = 1
    /\ calls[1].op = "get_history"
    /\ "search" \notin DOMAIN calls[1].params
    /\ calls[1].params.length =
         (IF Has(args, "length") THEN args.bag["length"] ELSE DefaultHistoryLength)
    /\ (Done /\ calls[1].st = "ok")
         => ~result.isError /\ result.payload = << <<"data", calls[1].n>> >>

(***************************************************************************)
(* Repeated watch-history invocations against one Tautulli backend.  The   *)
(* backend's data is fixed at the start: what the library search finds for *)
(* the title, the rows the history search matches, or that a command       *)
(* fails.  Every call is answered from that data, in any order.            *)
(***************************************************************************)
\* the data a Tautulli backend may hold for the title searched
BackendStates ==
  [lib : {[st |-> "ok", n |-> p[1], m |-> p[2]] : p \in {<<0, 0>>, <<1, 0>>, <<0, 1>>}}
           \cup {[st |-> "err", n |-> 0, m |-> 0]},
   hist : {[st |-> "ok", n |-> k, m |-> 0] : k \in {0, 1, ReturnCap, MaxRows}}
           \cup {[st |-> "err", n |-> 0, m |-> 0]}]

\* the backend's answer to a call: cmd=search is answered from the library,
\* cmd=get_history with a search string from the matching history rows, and
\* cmd=get_history without one with the recent history
BackendAnswer(b, c) ==
  IF c.op = "search" THEN b.lib
  ELSE IF "search" \in DOMAIN c.params THEN b.hist
  ELSE [st |-> b.hist.st, n |-> 1, m |-> 0]

NoPrev == [args |-> NoArgs, result |-> NoResult, settled |-> <<>>]

InitHistory ==
  /\ clients = {"tautulli"}
  /\ TOOLS = BuildTools(clients)
  /\ pc = "idle"
  /\ name = ""
  /\ args = NoArgs
  /\ ip = 0
  /\ calls = <<>>
  /\ acc = <<>>
  /\ result = NoResult
  /\ backend \in BackendStates
  /\ prev = NoPrev
  /\ settled = <<>>
  /\ StartupIdle
  /\ LibraryIdle
  /\ FormatIdle
  /\ ClientIdle
  /\ ScriptIdle

\* a tautulli_get_history request arrives
HistoryInvoke(a) ==
  /\ Dispatch("tautulli_get_history", a)
  /\ settled' = <<>>
  /\ UNCHANGED <<backend, prev, startupVars, library, formatVars, clientVars, scriptVars>>

\* the backend answers call j from its data while the handler is waiting
HistoryAnswer(j) ==
  /\ pc = "await"
  /\ j \in DOMAIN calls
  /\ calls[j].st = "pending"
  /\ LET r == BackendAnswer(backend, calls[j]) IN
       Resume(Settled(calls, j, r.st, <<r.n, r.m>>), j)
  /\ settled' = Append(settled, j)
  /\ UNCHANGED <<clients, TOOLS, name, args, backend, prev, startupVars, library, formatVars, clientVars, scriptVars>>

\* the backend answers call j after the handler has returned
HistoryAnswerLate(j) ==
  /\ Orphan(j)
  /\ settled' = Append(settled, j)
  /\ UNCHANGED <<backend, prev, startupVars, library, formatVars, clientVars, scriptVars>>

\* the result goes out to the caller and is remembered for the next invocation
HistoryRespond ==
  /\ Release
  /\ prev' = [args |-> args, result |-> result, settled |-> settled]
  /\ settled' = <<>>
  /\ UNCHANGED <<backend, startupVars, library, formatVars, clientVars, scriptVars>>

NextHistory ==
  \/ \E a \in ArgsFor("tautulli_get_history") : HistoryInvoke(a)
  \/ \E j \in DOMAIN calls : HistoryAnswer(j)
  \/ \E j \in DOMAIN calls : HistoryAnswerLate(j)
  \/ HistoryRespond

SpecHistory == InitHistory /\ [][NextHistory]_vars

\* the previous invocation had the same arguments as the one that has just finished
Repeated == Done /\ prev # NoPrev /\ prev.args = args

(***************************************************************************)
(* C13: two invocations of tautulli_get_history with identical arguments   *)
(* against an unchanged backend give the same outcome: both fail or both   *)
(* succeed, and with a title the two results carry the same                *)
(* existsInLibrary, the same watchedCount and the same history rows in the *)
(* same order, in whatever order the two probes completed in either run.   *)
(***************************************************************************)
C13_HistoryIdempotent ==
  Repeated =>
    /\ result.isError = prev.result.isError
    /\ (hasTitle(args) /\ ~result.isError) =>
         \A k \in {"existsInLibrary", "watchedCount", "history"} :
           Get(result.payload, k) = Get(prev.result.payload, k)

\* the title is in the library and was watched; the library search answered
\* first in one run and the history search first in the other
C13_Witness ==
  /\ Repeated
  /\ hasTitle(args)
  /\ ~result.isError
  /\ Get(result.payload, "existsInLibrary") = TRUE
  /\ Get(result.payload, "watchedCount") > ReturnCap
  /\ settled = <<1, 2>>
  /\ prev.settled = <<2, 1>>

(***************************************************************************)
(* Startup: the registry and the tool list are built from the process      *)
(* environment, or the process exits; a running server answers list-tools  *)
(* requests.                                                               *)
(***************************************************************************)
Undefined == "undefined"

\* the settings of one service tried: both set, the credential missing, the
\* URL empty, neither set
ServiceEnvs ==
  {[url |-> "http://host", apiKey |-> "key"],
   [url |-> "http://host", apiKey |-> Undefined],
   [url |-> "", apiKey |-> "key"],
   [url |-> Undefined, apiKey |-> Undefined]}

\* the process has not exited
Running == [exited |-> FALSE, code |-> 0]

\* process.exit(code)
Exit(code) == [exited |-> TRUE, code |-> code]

\* JavaScript truthiness of an environment value
Truthy(v) == v # Undefined /\ v # ""

\* IsConfigured with || in place of &&
IsConfiguredEither(e) == Truthy(e.url) \/ Truthy(e.apiKey)

\* s.url && s.apiKey
IsConfigured(e) == Truthy(e.url) /\ Truthy(e.apiKey)

\* the displayName of a service, as used in descriptions
ServiceLabel(s) ==
  CASE s = "sonarr" -> "Sonarr (TV)"
    [] s = "radarr" -> "Radarr (Movies)"
    [] s = "lidarr" -> "Lidarr (Music)"
    [] s = "readarr" -> "Readarr (Books)"
    [] s = "prowlarr" -> "Prowlarr (Indexers)"
    [] s = "tautulli" -> "Tautulli (Plex)"
    [] s = "overseerr" -> "Overseerr (Requests)"

\* configuredServices.map(s => s.displayName), then Tautulli and Overseerr when configured
statusParts(cl) ==
  LET arr == configuredServices(cl)
      opt == SelectSeqBy(OptionalServices, cl)
  IN [i \in DOMAIN arr |-> ServiceLabel(arr[i])] \o [i \in DOMAIN opt |-> ServiceLabel(opt[i])]

\* the descriptor of tool n: the description of arr_status is built from the
\* registry, every other description is a literal of the source or, for a
\* configuration tool, built from the display name of its own service
Descriptor(n, cl) ==
  [name |-> n,
   description |->
     IF n = "arr_status" THEN <<"Currently configured:">> \o statusParts(cl)
     ELSE IF n \in SingleConfigTools \cup ReviewTools
       THEN <<ConfigToolAction(n), ServiceLabel(ConfigToolService(n))>>
     ELSE <<n>>]

InitStartup ==
  /\ env \in [AllServices -> ServiceEnvs]
  /\ exitCode = Running
  /\ listed = <<>>
  /\ clients = {}
  /\ TOOLS = <<>>
  /\ pc = "startup"
  /\ name = ""
  /\ args = NoArgs
  /\ ip = 0
  /\ calls = <<>>
  /\ acc = <<>>
  /\ result = NoResult
  /\ HistoryIdle
  /\ LibraryIdle
  /\ FormatIdle
  /\ ClientIdle
  /\ ScriptIdle

\* the module's top-level code: exit when nothing is configured, otherwise
\* create a client for every configured service and build TOOLS
Startup ==
  /\ pc = "startup"
  /\ LET cl == {s \in AllServices : IsConfigured(env[s])} IN
       IF configuredServices(cl) = <<>> /\ "tautulli" \notin cl /\ "overseerr" \notin cl
         THEN /\ exitCode' = Exit(1)
              /\ pc' = "exited"
              /\ UNCHANGED <<clients, TOOLS>>
         ELSE /\ clients' = cl
              /\ TOOLS' = BuildTools(cl)
              /\ pc' = "idle"
              /\ UNCHANGED exitCode
  /\ UNCHANGED <<name, args, ip, calls, acc, result, env, listed, historyVars, library, formatVars, clientVars, scriptVars>>

\* ListToolsRequestSchema handler: return { tools: TOOLS }
ListTools ==
  /\ pc = "idle"
  /\ listed' = [i \in DOMAIN TOOLS |-> Descriptor(TOOLS[i], clients)]
  /\ UNCHANGED <<serverVars, env, exitCode, historyVars, library, formatVars, clientVars, scriptVars>>

NextStartup == Startup \/ ListTools

SpecStartup == InitStartup /\ [][NextStartup]_vars

\* a list-tools request has been answered
Listed == pc = "idle" /\ listed # <<>>

\* the tool names that come with service s
ToolsOfService(s) == {n \in FullToolSet : ToolService(n) = s}

StaticToolNames == {n \in FullToolSet : ToolService(n) = "none"}

\* the advertised descriptors that do not belong to service s, in list order
Without(list, s) == SelectSeq(list, LAMBDA d : ToolService(d.name) # s)

\* the list a server started with registry cl advertises
AdvertisedBy(cl) == LET t == BuildTools(cl) IN [i \in DOMAIN t |-> Descriptor(t[i], cl)]

\* the registries that differ from cl in one service and let the server start
Neighbours(cl) ==
  {p \in {<<s, cl \cup {s}>> : s \in AllServices \ cl} \cup {<<s, cl \ {s}>> : s \in cl} : p[2] # {}}

(***************************************************************************)
(* C14 as stated: the advertised names are the static tools plus the tools *)
(* of every configured service, without duplicates, and a registry that    *)
(* differs in one service advertises the same descriptors for every tool   *)
(* that is not of that service.                                            *)
(***************************************************************************)
C14_Original ==
  Listed =>
    /\ Range(Keys([i \in DOMAIN listed |-> <<listed[i].name, 0>>]))
         = StaticToolNames \cup UNION {ToolsOfService(s) : s \in clients}
    /\ NoDuplicates([i \in DOMAIN listed |-> listed[i].name])
    /\ \A p \in Neighbours(clients) :
         Without(AdvertisedBy(p[2]), p[1]) = Without(listed, p[1])

(***************************************************************************)
(* C14, amended: the advertised names are the static tools (arr_status,    *)
(* arr_search_all, the trash tools) plus the tools of every configured     *)
(* service, without duplicates; a registry that differs in one service     *)
(* advertises the same descriptors, in the same order, for every tool that *)
(* is neither of that service nor arr_status, whose description lists the  *)
(* configured services.                                                    *)
(***************************************************************************)
C14_ToolListByConfig ==
  Listed =>
    LET names == [i \in DOMAIN listed |-> listed[i].name]
        rest(list, s) == SelectSeq(Without(list, s), LAMBDA d : d.name # "arr_status")
    IN /\ Range(names) = StaticToolNames \cup UNION {ToolsOfService(s) : s \in clients}
       /\ {"arr_status", "arr_search_all"} \cup Range(StaticTrashTools) \subseteq Range(names)
       /\ NoDuplicates(names)
       /\ listed[1] = [name |-> "arr_status",
                       description |-> <<"Currently configured:">> \o statusParts(clients)]
       /\ \A p \in Neighbours(clients) :
            rest(AdvertisedBy(p[2]), p[1]) = rest(listed, p[1])

\* a server with Radarr and Tautulli configured has answered a list-tools request
C14_Witness ==
  /\ Listed
  /\ clients = {"radarr", "tautulli"}
  /\ \E i \in DOMAIN listed : listed[i].name = "radarr_get_movies"
  /\ \E i \in DOMAIN listed : listed[i].name = "tautulli_get_history"
  /\ \A i \in DOMAIN listed : listed[i].name # "sonarr_get_series"

LibraryTools == {"sonarr_get_series", "radarr_get_movies"}

\* the items a library is made of: dates and sizes, present or missing (a
\* size is a sequence of at most one number)
ItemInputs ==
  {[added |-> "2024-06-01", dateAdded |-> Undefined, sizeOnDisk |-> <<5>>],
   [added |-> "2023-01-01", dateAdded |-> Undefined, sizeOnDisk |-> <<9>>],
   [added |-> Undefined, dateAdded |-> Undefined, sizeOnDisk |-> <<>>],
   [added |-> "2023-01-01", dateAdded |-> "2024-06-01", sizeOnDisk |-> <<5>>]}

\* item number i of a library has id i
WithIds(items) ==
  [i \in DOMAIN items |->
     [id |-> i, added |-> items[i].added, dateAdded |-> items[i].dateAdded,
      sizeOnDisk |-> items[i].sizeOnDisk]]

RECURSIVE SeqsUpTo(_, _)
SeqsUpTo(S, n) ==
  IF n = 0 THEN {<<>>}
  ELSE LET shorter == SeqsUpTo(S, n - 1) IN
         shorter \cup {Append(t, x) : t \in {u \in shorter : Len(u) = n - 1}, x \in S}

\* a library of n items that all look alike
Uniform(n) == [i \in 1 .. n |-> [added |-> "2023-01-01", dateAdded |-> Undefined, sizeOnDisk |-> <<5>>]]

LibraryInputs ==
  {WithIds(t) : t \in SeqsUpTo(ItemInputs, MaxItems)}
    \cup {WithIds(Uniform(n)) : n \in (LimitCap - 1) .. MaxLibrary}

NumberValue(twice) == [type |-> "number", twice |-> twice, text |-> ""]

StringValue(text) == [type |-> "string", twice |-> 0, text |-> text]

\* the limits tried: -1, 0, 0.5, 1, 1.5, 2, the numbers around the cap, and two strings
LimitInputs ==
  {NumberValue(k) : k \in {-2, 0, 1, 2, 3, 4}}
    \cup {NumberValue(2 * k) : k \in (LimitCap - 1) .. (LimitCap + 1)}
    \cup {StringValue("abc"), StringValue("2")}

SortByInputs == {"dateAdded", "sizeOnDisk", "added", "title"}

SortDirInputs == {"asc", "desc", "up"}

ListArgs ==
  {NoArgs} \cup
  {Given(sb @@ sd @@ l) : sb \in OptBag("sortBy", SortByInputs),
                          sd \in OptBag("sortDir", SortDirInputs),
                          l \in OptBag("limit", LimitInputs)}

NaN == [nan |-> TRUE, twice |-> 0]

\* Number(v) for the values tried
Number(v) ==
  IF v.type = "number" THEN [nan |-> FALSE, twice |-> v.twice]
  ELSE IF v.text = "2" THEN [nan |-> FALSE, twice |-> 4]
  ELSE NaN

\* Math.floor of a number kept as twice its value
Floor(twice) == twice \div 2

NoLimit == [defined |-> FALSE, value |-> 0]

\* limitRaw = a.limit != null ? Number(a.limit) : NaN;
\* limit = Number.isFinite(limitRaw) && limitRaw > 0 ? Math.min(Math.floor(limitRaw), 1000) : undefined
limit(a) ==
  LET limitRaw == IF Has(a, "limit") THEN Number(a.bag["limit"]) ELSE NaN IN
    IF ~limitRaw.nan /\ limitRaw.twice > 0
      THEN [defined |-> TRUE, value |-> Min(Floor(limitRaw.twice), LimitCap)]
      ELSE NoLimit

\* the sort key the handler settles on; Radarr also takes 'added'
sortBy(n, a) ==
  LET raw == IF Has(a, "sortBy") THEN a.bag["sortBy"] ELSE Undefined IN
    IF raw = "dateAdded" \/ (n = "radarr_get_movies" /\ raw = "added") THEN "dateAdded"
    ELSE IF raw = "sizeOnDisk" THEN "sizeOnDisk"
    ELSE Undefined

\* a.sortDir === 'asc' || a.sortDir === 'desc' ? a.sortDir : undefined
sortDir(a) ==
  IF Has(a, "sortDir") /\ a.bag["sortDir"] \in {"asc", "desc"} THEN a.bag["sortDir"] ELSE Undefined

\* dir with the same default for both sort keys
dirAlwaysAsc(a, by) == IF sortDir(a) # Undefined THEN sortDir(a) ELSE "asc"

\* sortDir ?? 'asc' for dateAdded, sortDir ?? 'desc' for sizeOnDisk
dir(a, by) ==
  IF sortDir(a) # Undefined THEN sortDir(a)
  ELSE IF by = "dateAdded" THEN "asc" ELSE "desc"

\* the position of a date string in the order of localeCompare
DateRank(d) ==
  CASE d = "" -> 0
    [] d = "2023-01-01" -> 1
    [] d = "2024-06-01" -> 2

Sign(x) == IF x < 0 THEN -1 ELSE IF x > 0 THEN 1 ELSE 0

localeCompare(x, y) == Sign(DateRank(x) - DateRank(y))

\* a.added ?? '' for a series, a.dateAdded ?? a.added ?? '' for a movie
DateOf(n, x) ==
  IF n = "radarr_get_movies" /\ x.dateAdded # Undefined THEN x.dateAdded
  ELSE IF x.added # Undefined THEN x.added
  ELSE ""

\* sizeOnDisk ?? 0
SizeOf(x) == IF x.sizeOnDisk # <<>> THEN x.sizeOnDisk[1] ELSE 0

\* the comparator passed to sort
Compare(n, by, d, x, y) ==
  IF by = "dateAdded"
    THEN LET cmp == localeCompare(DateOf(n, x), DateOf(n, y)) IN IF d = "desc" THEN -cmp ELSE cmp
    ELSE LET cmp == SizeOf(y) - SizeOf(x) IN IF d = "asc" THEN -cmp ELSE cmp

RECURSIVE Insert(_, _, _, _, _)
\* x put behind the last item of the sorted sequence that does not come after it
Insert(n, by, d, sorted, x) ==
  IF sorted = <<>> THEN <<x>>
  ELSE IF Compare(n, by, d, sorted[Len(sorted)], x) <= 0 THEN Append(sorted, x)
  ELSE Append(Insert(n, by, d, SubSeq(sorted, 1, Len(sorted) - 1), x), sorted[Len(sorted)])

RECURSIVE Sort(_, _, _, _)
\* [...items].sort(comparator): Array.prototype.sort is stable
Sort(n, by, d, items) ==
  IF items = <<>> THEN <<>>
  ELSE Insert(n, by, d, Sort(n, by, d, SubSeq(items, 1, Len(items) - 1)), items[Len(items)])

\* the handler from the answer of getSeries / getMovies to its result
ListResult(n, a, items) ==
  LET by == sortBy(n, a)
      lim == limit(a)
      sorted == IF by = Undefined THEN items ELSE Sort(n, by, dir(a, by), items)
      totalCount == Len(sorted)
      cut == IF lim.defined THEN SubSeq(sorted, 1, Min(lim.value, Len(sorted))) ELSE sorted
  IN << <<"totalCount", totalCount>> >>
       \o (IF lim.defined THEN << <<"limitedTo", lim.value>> >> ELSE <<>>)
       \o << <<"count", Len(cut)>> >>
       \o (IF by # Undefined THEN << <<"sortBy", by>>, <<"sortDir", dir(a, by)>> >> ELSE <<>>)
       \o << <<"items", [i \in DOMAIN cut |-> [id |-> cut[i].id, dateAdded |-> cut[i].added]]>> >>

InitLibrary ==
  /\ clients = {"sonarr", "radarr"}
  /\ TOOLS = BuildTools(clients)
  /\ pc = "idle"
  /\ name = ""
  /\ args = NoArgs
  /\ ip = 0
  /\ calls = <<>>
  /\ acc = <<>>
  /\ result = NoResult
  /\ library \in LibraryInputs
  /\ HistoryIdle
  /\ StartupIdle
  /\ FormatIdle
  /\ ClientIdle
  /\ ScriptIdle

\* a list request arrives; the sorting of a library of more than MaxItems
\* items is not followed, such a library is requested in backend order
ListInvoke(n, a) ==
  /\ Len(library) > MaxItems => ~Has(a, "sortBy")
  /\ Dispatch(n, a)
  /\ UNCHANGED extVars

\* the backend returns its library and the handler builds the result
ListAnswer ==
  /\ pc = "await"
  /\ calls' = Settled(calls, 1, "ok", <<Len(library), 0>>)
  /\ pc' = "done"
  /\ result' = CatchBoundary(Return(ListResult(name, args, library)))
  /\ UNCHANGED <<clients, TOOLS, name, args, ip, acc, extVars>>

\* the backend call fails
ListFails ==
  /\ pc = "await"
  /\ Resume(Settled(calls, 1, "err", <<0, 0>>), 1)
  /\ UNCHANGED <<clients, TOOLS, name, args, extVars>>

NextLibrary ==
  \/ \E n \in LibraryTools : \E a \in ListArgs : ListInvoke(n, a)
  \/ ListAnswer
  \/ ListFails
  \/ Respond

SpecLibrary == InitLibrary /\ [][NextLibrary]_vars

\* the backend has returned its library to a list request
ListAnswered == Done /\ name \in LibraryTools /\ calls # <<>> /\ calls[1].st = "ok"

\* the item of the library that an emitted item came from
Source(e) == library[e.id]

\* the sort key of an item as a number: the rank of its date, or its size
KeyOf(n, by, x) == IF by = "dateAdded" THEN DateRank(DateOf(n, x)) ELSE SizeOf(x)

(***************************************************************************)
(* C16: when sonarr_get_series or radarr_get_movies is asked to sort, the  *)
(* emitted items are in descending size order for sortBy=sizeOnDisk and in *)
(* ascending date-added order for sortBy=dateAdded when no sortDir is      *)
(* given, an explicit sortDir of asc or desc is the order applied instead, *)
(* the reported sortDir is the direction applied, and without a limit the  *)
(* emitted items are all the items of the library.                         *)
(***************************************************************************)
C16_SortDefaults ==
  (ListAnswered /\ args.given /\ sortBy(name, args) # Undefined) =>
    LET by == sortBy(name, args)
        given == IF Has(args, "sortDir") /\ args.bag["sortDir"] \in {"asc", "desc"}
                   THEN args.bag["sortDir"] ELSE "none"
        applied == IF given # "none" THEN given
                   ELSE IF by = "sizeOnDisk" THEN "desc" ELSE "asc"
        items == Get(result.payload, "items")
    IN /\ ~result.isError
       /\ Get(result.payload, "sortDir") = applied
       /\ \A i \in 1 .. (Len(items) - 1) :
            IF applied = "asc"
              THEN KeyOf(name, by, Source(items[i])) <= KeyOf(name, by, Source(items[i + 1]))
              ELSE KeyOf(name, by, Source(items[i])) >= KeyOf(name, by, Source(items[i + 1]))
       /\ ~Has(args, "limit") =>
            /\ Len(items) = Len(library)
            /\ {items[i].id : i \in DOMAIN items} = DOMAIN library

\* three items of different sizes sorted by size with no sortDir: largest first
C16_Witness ==
  /\ ListAnswered
  /\ Has(args, "sortBy")
  /\ args.bag["sortBy"] = "sizeOnDisk"
  /\ ~Has(args, "sortDir")
  /\ ~Has(args, "limit")
  /\ Len(library) = MaxItems
  /\ SizeOf(library[1]) < SizeOf(library[2])
  /\ SizeOf(library[3]) < SizeOf(library[1])
  /\ Get(result.payload, "sortDir") = "desc"
  /\ [i \in 1 .. MaxItems |-> Get(result.payload, "items")[i].id] = <<2, 1, 3>>

(***************************************************************************)
(* C17: sonarr_get_series and radarr_get_movies return the first           *)
(* min(floor(limit), 1000) items of the sorted library when limit is a     *)
(* positive number, and all items when limit is missing, not a number or   *)
(* not positive; count is the number of items returned and totalCount the  *)
(* size of the library.                                                    *)
(***************************************************************************)
C17_LimitCap ==
  (Done /\ name \in LibraryTools /\ \A j \in DOMAIN calls : calls[j].st # "err") =>
    LET v == IF Has(args, "limit") THEN args.bag["limit"] ELSE StringValue("")
        twice == IF v.type = "number" THEN v.twice ELSE IF v.text = "2" THEN 4 ELSE 0
        expected == IF twice > 0 THEN Min(Min(twice \div 2, 1000), Len(library)) ELSE Len(library)
    IN /\ ~result.isError
       /\ Get(result.payload, "totalCount") = Len(library)
       /\ Get(result.payload, "count") = expected
       /\ Len(Get(result.payload, "items")) = expected
       /\ expected <= 1000 \/ twice <= 0
       /\ sortBy(name, args) = Undefined =>
            \A i \in 1 .. expected : Get(result.payload, "items")[i].id = i

(***************************************************************************)
(* formatBytes.  A byte count is the sequence of its base-1024 digits,     *)
(* most significant first, so that counts beyond the range of the model    *)
(* checker's integers can be formatted; <<0>> is zero.  The counts tried   *)
(* stay below 2^53, where a JavaScript number holds them exactly.          *)
(***************************************************************************)
sizes == <<"B", "KB", "MB", "GB", "TB">>

DigitInputs == {0, 512, UnitBase - 1}

\* the byte counts tried: up to one digit more than there are units, the
\* longest ones with a leading digit of 1
ByteInputs ==
  {<<0>>}
    \cup {b \in SeqsUpTo(DigitInputs \cup {1}, Len(sizes)) : b # <<>> /\ b[1] # 0}
    \cup {<<1>> \o b : b \in {c \in SeqsUpTo(DigitInputs, Len(sizes)) : Len(c) = Len(sizes)}}

\* Math.floor(Math.log(bytes) / Math.log(UnitBase)): one less than the number of
\* digits; Math.log is an approximation, and for the count just below
\* 1024^5 the quotient may come out as 5
LogFloor(b) ==
  IF b = [j \in 1 .. Len(sizes) |-> UnitBase - 1] THEN {Len(b) - 1, Len(b)} ELSE {Len(b) - 1}

RECURSIVE Frac200(_)
\* the integer part of 200 times the fraction whose base-1024 digits are ds
Frac200(ds) == IF ds = <<>> THEN 0 ELSE (200 * Head(ds) + Frac200(Tail(ds))) \div UnitBase

\* (bytes / Math.pow(UnitBase, i)).toFixed(2), in hundredths: the exact quotient rounded half up
toFixed2(b, i) ==
  LET ds == IF i = Len(b) THEN <<0>> \o b ELSE b IN
    (200 * Head(ds) + Frac200(Tail(ds)) + 1) \div 2

\* the text of parseFloat(<hundredths>): the integer part and the decimals
\* that are left when trailing zeros are dropped
parseFloat(h) ==
  [int |-> h \div 100,
   decimals |-> IF h % 100 = 0 THEN <<>>
                ELSE IF h % 10 = 0 THEN <<(h % 100) \div 10>>
                ELSE <<(h % 100) \div 10, h % 10>>]

\* formatBytes, with i the value of the Math.floor expression
formatBytes(b, i) ==
  IF b = <<0>> THEN [number |-> parseFloat(0), unit |-> "B"]
  ELSE [number |-> parseFloat(toFixed2(b, i)),
        unit |-> IF i + 1 \in DOMAIN sizes THEN sizes[i + 1] ELSE "undefined"]

NoText == [number |-> parseFloat(0), unit |-> ""]

InitFormat ==
  /\ bytes = <<0>>
  /\ formatted = NoText
  /\ clients = {"sonarr"}
  /\ TOOLS = BuildTools(clients)
  /\ pc = "idle"
  /\ name = ""
  /\ args = NoArgs
  /\ ip = 0
  /\ calls = <<>>
  /\ acc = <<>>
  /\ result = NoResult
  /\ HistoryIdle
  /\ StartupIdle
  /\ LibraryIdle
  /\ ClientIdle
  /\ ScriptIdle

\* formatBytes is called with the byte count b
Format(b) ==
  /\ bytes' = b
  /\ \E i \in LogFloor(b) : formatted' = formatBytes(b, i)
  /\ UNCHANGED <<serverVars, historyVars, startupVars, library, clientVars, scriptVars>>

NextFormat == \E b \in ByteInputs : Format(b)

SpecFormat == InitFormat /\ [][NextFormat]_vars

\* the number of a formatted text, in hundredths
HundredthsOf(t) ==
  t.number.int * 100
    + (IF t.number.decimals = <<>> THEN 0
       ELSE IF Len(t.number.decimals) = 1 THEN 10 * t.number.decimals[1]
       ELSE 10 * t.number.decimals[1] + t.number.decimals[2])

\* the unit suffixes in the order of their powers of 1024
UnitSuffixes == <<"B", "KB", "MB", "GB", "TB", "PB", "EB">>

RECURSIVE Less(_, _)
\* order of two byte counts with the same number of digits
Less(b, c) ==
  /\ b # <<>>
  /\ \/ Head(b) < Head(c)
     \/ Head(b) = Head(c) /\ Less(Tail(b), Tail(c))

\* a byte count of at most two digits as a number
SmallValue(b) == IF Len(b) = 1 THEN b[1] ELSE b[1] * UnitBase + b[2]

Formatted == formatted # NoText

(***************************************************************************)
(* C18: formatBytes(0) is "0 B"; a byte count of 1024 or more, of whatever *)
(* magnitude, is formatted as its quotient by the largest power of 1024    *)
(* that does not exceed it, rounded to two decimals, followed by the       *)
(* suffix of that power (KB, MB, GB, TB, PB, ...); and of two byte counts  *)
(* formatted with the same unit the larger one never gets the smaller      *)
(* number.                                                                 *)
(***************************************************************************)
C18_FormatBytes ==
  /\ [](Formatted =>
         /\ bytes = <<0>> => formatted = [number |-> [int |-> 0, decimals |-> <<>>], unit |-> "B"]
         /\ Len(bytes) >= 2 =>
              /\ formatted.unit = UnitSuffixes[Len(bytes)]
              /\ HundredthsOf(formatted) >= 100
              /\ HundredthsOf(formatted) <= 100 * UnitBase
              /\ formatted.number.int \in {bytes[1], bytes[1] + 1}
              /\ Len(bytes) = 2 =>
                   LET d == HundredthsOf(formatted) * UnitBase - 100 * SmallValue(bytes) IN
                     2 * d <= UnitBase /\ 2 * d > -UnitBase)
  /\ [][(Formatted /\ formatted'.unit = formatted.unit /\ Len(bytes') = Len(bytes)
           /\ Less(bytes, bytes'))
         => HundredthsOf(formatted') >= HundredthsOf(formatted)]_vars

(***************************************************************************)
(* The HTTP clients of Tautulli and Overseerr: one request, the backend's  *)
(* response, and the text that reaches the caller of the tool.             *)
(***************************************************************************)
\* the credential the client was constructed with
apiKey == "s3cr3t"

ClientServices == {"tautulli", "overseerr"}

CommandInputs == {"get_activity", "get_history", "status"}

\* the request of TautulliClient.request (the credential is a query
\* parameter) and of OverseerrClient.request (the credential is a header)
HttpRequest(svc, cmd) ==
  IF svc = "tautulli"
    THEN [svc |-> svc, url |-> <<"http://host/api/v2", "?apikey=", apiKey, "&cmd=", cmd>>,
          headers |-> <<>>]
    ELSE [svc |-> svc, url |-> <<"http://host/api/v1", "/", cmd>>,
          headers |-> <<"X-Api-Key:", apiKey>>]

\* the bodies a backend or a proxy in front of it may send: nothing, a short
\* reason, an internal detail, the request line, the request headers
BodyInputs(req) ==
  {<<>>, <<"Unauthorized">>, <<"Traceback", "/opt/app/db.py">>,
   <<"Cannot GET">> \o req.url, <<"Bad request:">> \o req.headers}

\* status lines tried; the status is kept as the text it has in a message
StatusInputs ==
  {[status |-> "200", statusText |-> "OK"], [status |-> "401", statusText |-> "Unauthorized"],
   [status |-> "404", statusText |-> "Not Found"],
   [status |-> "500", statusText |-> "Internal Server Error"]}

\* response.ok
Ok(resp) == resp.status = "200"

\* the responses tried; result is the result member of a Tautulli JSON answer
ResponseInputs(req) ==
  {[status |-> st.status, statusText |-> st.statusText, body |-> b, result |-> r] :
     st \in StatusInputs, b \in BodyInputs(req), r \in {"success", "error"}}

\* ClientOutcome without the check of the payload's result member
ClientOutcomeIgnoresResult(req, resp) ==
  IF ~Ok(resp)
    THEN Throw(<<DisplayName(req.svc), "API error:", resp.status, resp.statusText, "-">> \o resp.body)
  ELSE Return(<< <<"data", resp.body>> >>)


\* the outcome of request(): the data, or the Error thrown
ClientOutcome(req, resp) ==
  IF ~Ok(resp)
    THEN Throw(<<DisplayName(req.svc), "API error:", resp.status, resp.statusText, "-">> \o resp.body)
  ELSE IF req.svc = "tautulli" /\ resp.result = "error"
    THEN Throw(IF resp.body # <<>> THEN resp.body ELSE <<"Tautulli API error">>)
  ELSE Return(<< <<"data", resp.body>> >>)

NoRequest == [svc |-> "", url |-> <<>>, headers |-> <<>>]

NoResponse == [status |-> "", statusText |-> "", body |-> <<>>, result |-> ""]

InitClient ==
  /\ request = NoRequest
  /\ response = NoResponse
  /\ clients = ClientServices
  /\ TOOLS = BuildTools(clients)
  /\ pc = "idle"
  /\ name = ""
  /\ args = NoArgs
  /\ ip = 0
  /\ calls = <<>>
  /\ acc = <<>>
  /\ result = NoResult
  /\ HistoryIdle
  /\ StartupIdle
  /\ LibraryIdle
  /\ FormatIdle
  /\ ScriptIdle

\* a handler calls a client method, which sends its request
ClientRequest(svc, cmd) ==
  /\ pc = "idle"
  /\ request' = HttpRequest(svc, cmd)
  /\ response' = NoResponse
  /\ pc' = "await"
  /\ result' = NoResult
  /\ UNCHANGED <<clients, TOOLS, name, args, ip, calls, acc,
                 historyVars, startupVars, library, formatVars, scriptVars>>

\* the backend responds; the handler returns the data, or its catch clause
\* returns the message of the Error
ClientResponse(resp) ==
  /\ pc = "await"
  /\ response' = resp
  /\ result' = CatchBoundary(ClientOutcome(request, resp))
  /\ pc' = "idle"
  /\ UNCHANGED <<clients, TOOLS, name, args, ip, calls, acc, request,
                 historyVars, startupVars, library, formatVars, scriptVars>>

NextClient ==
  \/ \E svc \in ClientServices : \E cmd \in CommandInputs : ClientRequest(svc, cmd)
  \/ \E resp \in ResponseInputs(request) : ClientResponse(resp)

SpecClient == InitClient /\ [][NextClient]_vars

\* t occurs in s as a run of consecutive tokens
Occurs(t, s) == \E i \in 0 .. (Len(s) - Len(t)) : SubSeq(s, i + 1, i + Len(t)) = t

(***************************************************************************)
(* C19: whatever status, status text and body the backend sends, the error *)
(* text returned to the caller for a failed backend call does not contain  *)
(* the API key, and it does not carry the backend's error body verbatim.   *)
(***************************************************************************)
C19_NoCredentialInErrors ==
  (result.kind = "returned" /\ result.isError) =>
    /\ apiKey \notin Range(result.text)
    /\ response.body # <<>> => ~Occurs(response.body, result.text)

\* the backend operations a fan-out tool performs under the registry cl
Probes(n, cl) == SelectSeq(Script(n, cl), LAMBDA step : step.kind = "probe")

FanOut == name \in {"arr_status", "arr_search_all"} /\ (name = "arr_search_all" => args.given)

(***************************************************************************)
(* C20: in arr_status and arr_search_all the operation of every configured *)
(* backend has been launched whenever the handler is waiting, so that all  *)
(* of them are launched before any has settled, and the result is returned *)
(* only after every one of them has settled.                               *)
(***************************************************************************)
C20_FanOutConcurrent ==
  FanOut =>
    /\ pc = "await" => Len(calls) = Len(Probes(name, clients))
    /\ Done =>
         /\ Len(calls) = Len(Probes(name, clients))
         /\ \A j \in DOMAIN calls : calls[j].st \in {"ok", "err"}

\* a tautulli_get_history invocation with a title is under way or has finished
HistoryTitleRun ==
  name = "tautulli_get_history" /\ "tautulli" \in clients /\ pc # "idle" /\ hasTitle(args)

(***************************************************************************)
(* C21: in tautulli_get_history with a title, the library search (limit    *)
(* 10, query = trimmed title) and the history search (length 1000, search  *)
(* = trimmed title) are both issued before the handler first waits, each   *)
(* exactly once, and a watch-history result is composed only when both     *)
(* have settled.                                                           *)
(***************************************************************************)
C21_HistoryProbesTogether ==
  HistoryTitleRun =>
    /\ Len(calls) = 2
    /\ calls[1].op = "search"
    /\ calls[1].params = [query |-> Trim(args.bag["title"]), limit |-> 10]
    /\ calls[2].op = "get_history"
    /\ calls[2].params.length = 1000
    /\ calls[2].params.search = Trim(args.bag["title"])
    /\ (Done /\ ~result.isError) => \A j \in 1 .. 2 : calls[j].st \in {"ok", "err"}

\* the handler waits with both probes in flight, for a title that needed trimming
C21_Witness ==
  /\ HistoryTitleRun
  /\ pc = "await"
  /\ args.bag["title"] # Trim(args.bag["title"])
  /\ calls[1].st = "pending"
  /\ calls[2].st = "pending"

(***************************************************************************)
(* The review tools with the backend free to answer in any order: one      *)
(* registry with Sonarr alone and one with Lidarr alone, and the review    *)
(* tool of each of the two asked for.                                      *)
(***************************************************************************)
ReviewConfigs == {{"sonarr"}, {"lidarr"}}

ReviewInputs == {"sonarr_review_setup", "lidarr_review_setup"}

InitReview ==
  /\ clients \in ReviewConfigs
  /\ TOOLS = BuildTools(clients)
  /\ pc = "idle"
  /\ name = ""
  /\ args = NoArgs
  /\ ip = 0
  /\ calls = <<>>
  /\ acc = <<>>
  /\ result = NoResult
  /\ ExtIdle

\* a request for a review tool arrives
ReviewInvoke(n) == Dispatch(n, NoArgs) /\ UNCHANGED extVars

\* call j of the review succeeds while the handler waits on it
ReviewAnswer(j) ==
  /\ pc = "await"
  /\ j \in DOMAIN calls
  /\ calls[j].st = "pending"
  /\ \E p \in Payloads(calls[j]) : Resume(Settled(calls, j, "ok", p), j)
  /\ UNCHANGED <<clients, TOOLS, name, args, extVars>>

\* call j of the review fails while the handler waits on it
ReviewFails(j) ==
  /\ pc = "await"
  /\ j \in DOMAIN calls
  /\ calls[j].st = "pending"
  /\ Resume(Settled(calls, j, "err", <<0, 0>>), j)
  /\ UNCHANGED <<clients, TOOLS, name, args, extVars>>

\* call j settles after the review has failed and returned
ReviewAnswerLate(j) ==
  /\ pc = "done"
  /\ j \in DOMAIN calls
  /\ calls[j].st = "pending"
  /\ calls' = Settled(calls, j, "late", <<0, 0>>)
  /\ UNCHANGED <<clients, TOOLS, pc, name, args, ip, acc, result, extVars>>

NextReview ==
  \/ \E n \in ReviewInputs : ReviewInvoke(n)
  \/ \E j \in DOMAIN calls : ReviewAnswer(j)
  \/ \E j \in DOMAIN calls : ReviewFails(j)
  \/ \E j \in DOMAIN calls : ReviewAnswerLate(j)
  \/ Respond

SpecReview == InitReview /\ [][NextReview]_vars

\* a review of a configured service is under way or has finished
ReviewRun == pc # "idle" /\ name \in ReviewTools /\ ConfigToolService(name) \in clients

\* the review's service has metadata profiles
HasMetadataProfiles == ConfigToolService(name) \in {"lidarr", "readarr"}

\* the ten calls of Promise.all are in the log from the first await on
TenTogether ==
  /\ Len(calls) >= Len(ReviewOps)
  /\ \A i \in DOMAIN ReviewOps : calls[i].op = ReviewOps[i] /\ calls[i].svc = ConfigToolService(name)

\* a review comes out only when every call was answered, an error when one failed
AllOrNothing ==
  /\ (\E j \in DOMAIN calls : calls[j].st = "err") => Done /\ result.isError
  /\ (Done /\ ~result.isError) =>
       /\ \A j \in DOMAIN calls : calls[j].st = "ok"
       /\ Len(calls) = Len(ReviewOps) + (IF HasMetadataProfiles THEN 1 ELSE 0)

\* C22 as stated: every sub-call of a review is issued together with the others
C22_Original ==
  ReviewRun => TenTogether /\ Len(calls) = Len(ReviewOps) /\ AllOrNothing

(***************************************************************************)
(* C22: a {service}_review_setup invocation issues its ten configuration   *)
(* calls together; for Lidarr and Readarr an eleventh call (the metadata   *)
(* profiles) is issued only after all ten have succeeded.  The review is   *)
(* composed only after every call has succeeded; if any call fails the     *)
(* invocation returns an error result and never a partial review.          *)
(***************************************************************************)
C22_ReviewAllOrNothing ==
  ReviewRun =>
    /\ TenTogether
    /\ Len(calls) > Len(ReviewOps) =>
         /\ HasMetadataProfiles
         /\ Len(calls) = Len(ReviewOps) + 1
         /\ calls[Len(calls)].op = "getMetadataProfiles"
         /\ \A i \in DOMAIN ReviewOps : calls[i].st = "ok"
    /\ AllOrNothing

\* a Lidarr review that came out after its eleventh call
C22_Witness ==
  ReviewRun /\ Done /\ ~result.isError /\ Len(calls) = Len(ReviewOps) + 1

(***************************************************************************)
(* The library-presence signal of tautulli_get_history, on the answers the *)
(* library search can give.  An optional member of an object is the empty  *)
(* sequence when absent and a one-element sequence when present.           *)
(***************************************************************************)
\* the categories the backend groups its search results by
Categories == {"movie", "show", "episode"}

\* the values of a category: arrays of 0 to 2 results, and a value with a
\* length that is not an array
CategoryValues ==
  {[isArray |-> TRUE, length |-> n] : n \in 0 .. 2} \cup {[isArray |-> FALSE, length |-> 3]}

\* the values of results_list: every object over some of the categories
ResultLists == UNION {[cs -> CategoryValues] : cs \in SUBSET Categories}

\* the data of a library search answer
LibraryData ==
  [results_count : {<<>>, <<0>>, <<2>>},
   results_list : {<<>>} \cup {<<l>> : l \in ResultLists}]

\* the outcomes of searchLibrary: a failure, or a success with or without data
SearchOutcomes ==
  {[st |-> "err", data |-> <<>>], [st |-> "ok", data |-> <<>>]}
    \cup {[st |-> "ok", data |-> <<d>>] : d \in LibraryData}

\* .then(res => ({ data: res })).catch(() => ({ data: null }))
libraryResult(outcome) == [data |-> IF outcome.st = "ok" THEN outcome.data ELSE <<>>]

RECURSIVE SumLengths(_, _)
\* Object.values(list).reduce((sum, arr) => sum + (Array.isArray(arr) ? arr.length : 0), 0)
SumLengths(list, keys) ==
  IF keys = {} THEN 0
  ELSE LET c == CHOOSE x \in keys : TRUE
       IN (IF list[c].isArray THEN list[c].length ELSE 0) + SumLengths(list, keys \ {c})

totalFromList(list) == SumLengths(list, DOMAIN list)

\* existsInLibrary with the grouped results left out of the signal
existsInLibraryCountOnly(r) ==
  IF r.data = <<>> THEN FALSE
  ELSE LET count == IF r.data[1].results_count = <<>> THEN 0 ELSE r.data[1].results_count[1]
       IN count > 0

\* let existsInLibrary = false; if (libraryResult.data) { ... count > 0 || totalFromList > 0 }
existsInLibrary(r) ==
  IF r.data = <<>> THEN FALSE
  ELSE LET count == IF r.data[1].results_count = <<>> THEN 0 ELSE r.data[1].results_count[1]
           list == IF r.data[1].results_list = <<>> THEN EmptyBag ELSE r.data[1].results_list[1]
       IN count > 0 \/ totalFromList(list) > 0

NotServed == <<>>

InitPresence ==
  /\ probe = [st |-> "err", data |-> <<>>]
  /\ served = NotServed
  /\ scripted = NotServed
  /\ clients = {"tautulli"}
  /\ TOOLS = BuildTools(clients)
  /\ pc = "idle"
  /\ name = ""
  /\ args = NoArgs
  /\ ip = 0
  /\ calls = <<>>
  /\ acc = <<>>
  /\ result = NoResult
  /\ HistoryIdle
  /\ StartupIdle
  /\ LibraryIdle
  /\ FormatIdle
  /\ ClientIdle

\* the library search has settled with outcome o and the handler derives the signal
Correlate(o) ==
  /\ probe' = o
  /\ served' = <<existsInLibrary(libraryResult(o))>>
  /\ UNCHANGED <<serverVars, historyVars, startupVars, library, formatVars, clientVars, scripted>>

NextPresence == \E o \in SearchOutcomes : Correlate(o)

SpecPresence == InitPresence /\ [][NextPresence]_vars

\* the answer's results_count is above zero
CountSignal ==
  /\ probe.data # <<>>
  /\ probe.data[1].results_count # <<>>
  /\ probe.data[1].results_count[1] > 0

\* some category of the answer's results_list is a non-empty list
ListSignal ==
  /\ probe.data # <<>>
  /\ probe.data[1].results_list # <<>>
  /\ \E c \in DOMAIN probe.data[1].results_list[1] :
       /\ probe.data[1].results_list[1][c].isArray
       /\ probe.data[1].results_list[1][c].length > 0

(***************************************************************************)
(* C23: existsInLibrary is true exactly when the library search succeeded  *)
(* and its answer has a results_count above zero or a non-empty category   *)
(* list in results_list; it is false when both signals are empty and when  *)
(* the search failed.                                                      *)
(***************************************************************************)
C23_ExistsInLibrary ==
  served # NotServed =>
    (served[1] <=> (probe.st = "ok" /\ (CountSignal \/ ListSignal)))

\* presence found through a category list alone, the count being zero
C23_Witness ==
  /\ served = <<TRUE>>
  /\ probe.data[1].results_count = <<0>>
  /\ ListSignal

(***************************************************************************)
(* The mapping of a history row to an emitted entry.                       *)
(***************************************************************************)
\* the rows tried: every field absent or present, the display name also empty
RowInputs ==
  [friendly_name : {<<>>, <<"">>, <<"Alice">>},
   user : {<<>>, <<"alice01">>},
   date : {<<>>, <<0>>, <<86399>>, <<951782400>>, <<1700000000>>},
   full_title : {<<>>, <<"Dune - Part One">>},
   title : {<<>>, <<"Part One">>},
   grandparent_title : {<<>>, <<"Dune">>},
   original_title : {<<>>, <<"Dyuna">>}]

\* String(n).padStart(2, '0')
Pad2(n) == IF n < 10 THEN "0" \o ToString(n) ELSE ToString(n)

\* String(n).padStart(4, '0')
Pad4(n) ==
  IF n < 10 THEN "000" \o ToString(n)
  ELSE IF n < 100 THEN "00" \o ToString(n)
  ELSE IF n < 1000 THEN "0" \o ToString(n)
  ELSE ToString(n)

\* the proleptic Gregorian date of the day number z (days since 1970-01-01)
DateFromDays(z) ==
  LET e == z + 719468
      era == e \div 146097
      doe == e - era * 146097
      yoe == (doe - (doe \div 1460) + (doe \div 36524) - (doe \div 146096)) \div 365
      doy == doe - (365 * yoe + (yoe \div 4) - (yoe \div 100))
      mp == (5 * doy + 2) \div 153
      d == doy - ((153 * mp + 2) \div 5) + 1
      m == IF mp < 10 THEN mp + 3 ELSE mp - 9
      y == yoe + era * 400 + (IF m <= 2 THEN 1 ELSE 0)
  IN [year |-> y, month |-> m, day |-> d]

\* new Date(secs * 1000).toISOString() for whole seconds from 1970 on
toISOString(secs) ==
  LET date == DateFromDays(secs \div 86400)
      t == secs % 86400
  IN Pad4(date.year) \o "-" \o Pad2(date.month) \o "-" \o Pad2(date.day) \o "T"
       \o Pad2(t \div 3600) \o ":" \o Pad2((t % 3600) \div 60) \o ":" \o Pad2(t % 60) \o ".000Z"

\* mapRow with the title fields tried in another order
mapRowTitleFirst(r) ==
  [who |-> IF r.friendly_name # <<>> THEN r.friendly_name[1]
           ELSE IF r.user # <<>> THEN r.user[1] ELSE "-",
   when |-> IF r.date # <<>> THEN toISOString(r.date[1]) ELSE "-",
   title |-> IF r.title # <<>> THEN r.title[1]
             ELSE IF r.full_title # <<>> THEN r.full_title[1]
             ELSE IF r.grandparent_title # <<>> THEN r.grandparent_title[1] ELSE "-"]

\* rows.slice(0, returnLimit).map((row) => ({ who, when, title }))
mapRow(r) ==
  [who |-> IF r.friendly_name # <<>> THEN r.friendly_name[1]
           ELSE IF r.user # <<>> THEN r.user[1] ELSE "-",
   when |-> IF r.date # <<>> THEN toISOString(r.date[1]) ELSE "-",
   title |-> IF r.full_title # <<>> THEN r.full_title[1]
             ELSE IF r.title # <<>> THEN r.title[1]
             ELSE IF r.grandparent_title # <<>> THEN r.grandparent_title[1] ELSE "-"]

InitRow ==
  /\ probe \in RowInputs
  /\ served = NotServed
  /\ scripted = NotServed
  /\ clients = {"tautulli"}
  /\ TOOLS = BuildTools(clients)
  /\ pc = "idle"
  /\ name = ""
  /\ args = NoArgs
  /\ ip = 0
  /\ calls = <<>>
  /\ acc = <<>>
  /\ result = NoResult
  /\ HistoryIdle
  /\ StartupIdle
  /\ LibraryIdle
  /\ FormatIdle
  /\ ClientIdle

\* the handler maps the row to its entry
MapRow ==
  /\ served = NotServed
  /\ served' = <<mapRow(probe)>>
  /\ UNCHANGED <<serverVars, historyVars, startupVars, library, formatVars, clientVars, probe, scripted>>

NextRow == MapRow

SpecRow == InitRow /\ [][NextRow]_vars

RECURSIVE FirstPresent(_)
\* the first present value of a sequence of optional values, else "-"
FirstPresent(opts) ==
  IF opts = <<>> THEN "-"
  ELSE IF Head(opts) # <<>> THEN Head(opts)[1]
  ELSE FirstPresent(Tail(opts))

\* the ISO-8601 texts of the timestamps tried, from the calendar
KnownISO(secs) ==
  CASE secs = 0 -> "1970-01-01T00:00:00.000Z"
    [] secs = 86399 -> "1970-01-01T23:59:59.000Z"
    [] secs = 951782400 -> "2000-02-29T00:00:00.000Z"
    [] secs = 1700000000 -> "2023-11-14T22:13:20.000Z"

\* who and when of the emitted entry follow their fallbacks
WhoAndWhen ==
  /\ served[1].who = FirstPresent(<<probe.friendly_name, probe.user>>)
  /\ served[1].when = IF probe.date = <<>> THEN "-" ELSE KnownISO(probe.date[1])

\* C24 as stated: the title falls back over four title fields of the row
C24_Original ==
  served # NotServed =>
    /\ WhoAndWhen
    /\ served[1].title = FirstPresent(<<probe.full_title, probe.title,
                                        probe.grandparent_title, probe.original_title>>)

(***************************************************************************)
(* C24: each emitted watch-history entry is derived from its row by        *)
(* ordered fallback: who is friendly_name, else user, else "-"; when is    *)
(* the row's epoch-seconds date as ISO-8601, or "-" if the row has no      *)
(* date; title is the first present of the three fields full_title, title  *)
(* and grandparent_title, else "-".                                        *)
(***************************************************************************)
C24_RowFallbacks ==
  served # NotServed =>
    /\ WhoAndWhen
    /\ served[1].title = FirstPresent(<<probe.full_title, probe.title, probe.grandparent_title>>)

\* an entry that took its name from user, its title from title, and has a date
C24_Witness ==
  /\ served # NotServed
  /\ probe.friendly_name = <<>> /\ probe.user # <<>>
  /\ probe.full_title = <<>> /\ probe.title # <<>>
  /\ probe.date = <<951782400>>

SingleCallTools ==
  SingleConfigTools \cup {n \in SimpleToolNames : Len(Row(n)[4]) = 1}

(***************************************************************************)
(* C26: within one invocation no backend request is retried: no backend    *)
(* operation is sent twice, and in a single-call tool a failed call gives  *)
(* the error result at once, with no further backend call.                 *)
(***************************************************************************)
C26_NoRetry ==
  /\ \A i, j \in DOMAIN calls :
       (i < j) => ~(calls[i].svc = calls[j].svc /\ calls[i].op = calls[j].op)
  /\ name \in SingleCallTools =>
       /\ Len(calls) <= 1
       /\ (calls # <<>> /\ calls[1].st = "err") => Done /\ result.isError

\* a single-call tool whose one call failed
C26_Witness ==
  /\ name \in SingleCallTools
  /\ name \notin SingleConfigTools
  /\ Len(calls) = 1
  /\ calls[1].st = "err"
  /\ Done

\* the Tautulli client has an answer and the handler has returned
TautulliAnswered ==
  request.svc = "tautulli" /\ response # NoResponse /\ result.kind = "returned"

LiveConfig == {"sonarr", "lidarr", "tautulli"}

\* the tools followed: the two with a Promise.all, a fan-out and a two-call tool
LiveInputs == {"lidarr_review_setup", "tautulli_get_history", "arr_status", "sonarr_delete_season"}

InitLive ==
  /\ clients = LiveConfig
  /\ TOOLS = BuildTools(clients)
  /\ pc = "idle"
  /\ name = ""
  /\ args = NoArgs
  /\ ip = 0
  /\ calls = <<>>
  /\ acc = <<>>
  /\ result = NoResult
  /\ ExtIdle

\* backend call j settles: with a payload, with a failure, or unobserved
Settle(j) ==
  \/ \E p \in Payloads(calls[j]) : SettleOk(j, p)
  \/ SettleErr(j)
  \/ SettleLate(j)

\* the result has gone out and every call of the invocation has settled
Retire ==
  /\ \A j \in DOMAIN calls : calls[j].st # "pending"
  /\ Respond

NextLive ==
  \/ \E n \in LiveInputs : \E a \in ArgsFor(n) : Invoke(n, a)
  \/ \E j \in DOMAIN calls : Settle(j)
  \/ Retire

SpecLive ==
  InitLive /\ [][NextLive]_vars /\ WF_vars(\E j \in DOMAIN calls : Settle(j))

\* call j of the invocation is in flight
InFlight(j) == j \in DOMAIN calls /\ calls[j].st = "pending"

\* call j of the invocation has settled on its own
HasSettled(j) == j \in DOMAIN calls /\ calls[j].st \in {"ok", "err", "late"}

(***************************************************************************)
(* C28: if every backend call eventually settles, every invocation that    *)
(* waits eventually returns a result, and every call it launched stays in  *)
(* flight until it settles on its own (nothing aborts it), also after a    *)
(* sibling call has failed and the result has gone out.                    *)
(***************************************************************************)
C28_EventuallyReturns ==
  /\ (pc = "await") ~> Done
  /\ \A j \in 1 .. (Len(ReviewOps) + 1) : InFlight(j) ~> HasSettled(j)
  /\ [][\A j \in DOMAIN calls : InFlight(j) => (j \in DOMAIN calls' /\ calls'[j].st # "cancelled")]_vars

\* a call that settled after a sibling's failure had ended the invocation
C28_Witness ==
  /\ Done
  /\ result.isError
  /\ \E i, j \in DOMAIN calls : calls[i].st = "err" /\ calls[j].st = "late"

\* a sonarr_delete_season invocation that got past its checks
DeleteSeasonRun ==
  name = "sonarr_delete_season" /\ "sonarr" \in clients /\ args.given /\ pc # "idle"

(***************************************************************************)
(* C29: sonarr_delete_season first fetches the episode-file ids and only   *)
(* then deletes.  While the fetch is in flight and when it has failed      *)
(* there is no delete call; with an empty id list there is no delete call  *)
(* and the result is a success with deletedFiles 0; otherwise there is     *)
(* exactly one delete call, with exactly the fetched ids, and the success  *)
(* reports deletedFiles as their number.                                   *)
(***************************************************************************)
C29_DeleteSeason ==
  DeleteSeasonRun =>
    /\ Len(calls) >= 1
    /\ calls[1].op = "getEpisodeFileIds"
    /\ \A j \in DOMAIN calls : j > 1 => (j = 2 /\ calls[j].op = "deleteEpisodeFiles")
    /\ calls[1].st \in {"pending", "err"} => Len(calls) = 1
    /\ (calls[1].st = "err") => Done /\ result.isError
    /\ (calls[1].st = "ok" /\ calls[1].n = 0) =>
         /\ Len(calls) = 1
         /\ Done /\ ~result.isError
         /\ Get(result.payload, "success") = TRUE
         /\ Get(result.payload, "deletedFiles") = 0
    /\ (calls[1].st = "ok" /\ calls[1].n > 0) =>
         /\ Len(calls) = 2
         /\ calls[2].params["episodeFileIds"] = 1 .. calls[1].n
         /\ (Done /\ ~result.isError) =>
              /\ calls[2].st = "ok"
              /\ Get(result.payload, "deletedFiles") = calls[1].n

\* a season of MaxIds episode files deleted
C29_Witness ==
  /\ DeleteSeasonRun
  /\ Done /\ ~result.isError
  /\ Len(calls) = 2
  /\ calls[1].n = MaxIds

(***************************************************************************)
(* scripts/dummy_test.mjs against the title flow of tautulli_get_history,  *)
(* on the same title, length and backend contents.  Texts that are taken   *)
(* apart are sequences of characters.                                      *)
(***************************************************************************)
chunkSize == 1000

maxChunks == 15

\* a history row with one title field
TitledRow(who, date, field, text) ==
  [friendly_name |-> who, user |-> <<"viewer">>, date |-> date,
   full_title |-> IF field = "full_title" THEN <<text>> ELSE <<>>,
   title |-> IF field = "title" THEN <<text>> ELSE <<>>,
   grandparent_title |-> IF field = "grandparent_title" THEN <<text>> ELSE <<>>,
   original_title |-> <<>>]

\* the rows the backend's history is made of: "Dune", "dunes" and "Sun"
SampleRows ==
  {TitledRow(<<"Alice">>, <<0>>, "full_title", <<"D", "u", "n", "e">>),
   TitledRow(<<>>, <<>>, "title", <<"d", "u", "n", "e", "s">>),
   TitledRow(<<"Bob">>, <<86399>>, "grandparent_title", <<"S", "u", "n">>)}

\* the backend contents: its history (plays) and the rows its text search
\* finds for the title (found), which are some of the plays
BackendContents ==
  UNION {{[plays |-> p, found |-> SelectSeqBy(p, keep)] : keep \in SUBSET SampleRows} :
           p \in UNION {[1 .. n -> SampleRows] : n \in 0 .. 2}}

\* the titles asked for: "Dune", "Dune:" and ":"
ScriptTitles == {<<"D", "u", "n", "e">>, <<"D", "u", "n", "e", ":">>, <<":">>}

\* the requests: a title and an optional length
ScriptQueries == [title : ScriptTitles, length : {<<>>} \cup {<<l>> : l \in LengthInputs}]

\* toLowerCase() of a character
LowerChar(c) == IF c = "D" THEN "d" ELSE IF c = "S" THEN "s" ELSE c

toLowerCase(t) == [i \in DOMAIN t |-> LowerChar(t[i])]

\* a character of \w or \s
IsWordOrSpace(c) == c \in {"d", "u", "n", "e", "s", "D", "S", " "}

RECURSIVE SplitWords(_, _)
\* split(/\s+/).filter(Boolean) of the text t, cur being the word read so far
SplitWords(t, cur) ==
  IF t = <<>> THEN (IF cur = <<>> THEN <<>> ELSE <<cur>>)
  ELSE IF Head(t) = " "
    THEN (IF cur = <<>> THEN <<>> ELSE <<cur>>) \o SplitWords(Tail(t), <<>>)
  ELSE SplitWords(Tail(t), Append(cur, Head(t)))

\* title.toLowerCase().replace(/[^\w\s]/g, ' ').split(/\s+/).filter(Boolean)
searchWords(title) ==
  SplitWords([i \in DOMAIN title |->
                IF IsWordOrSpace(title[i]) THEN LowerChar(title[i]) ELSE " "], <<>>)

RECURSIVE Join(_)
\* join(' ') of a sequence of texts
Join(ts) ==
  IF ts = <<>> THEN <<>>
  ELSE IF Len(ts) = 1 THEN ts[1]
  ELSE ts[1] \o <<" ">> \o Join(Tail(ts))

\* [row.title, row.full_title, row.grandparent_title, row.original_title]
\*   .filter(Boolean).join(' ').toLowerCase()
RowText(row) ==
  LET fields == <<row.title, row.full_title, row.grandparent_title, row.original_title>>
      present == SelectSeq(fields, LAMBDA f : f # <<>> /\ f[1] # <<>>)
  IN toLowerCase(Join([i \in DOMAIN present |-> present[i][1]]))

\* searchWords.every((w) => t.includes(w))
MatchesWords(row, words) == \A i \in DOMAIN words : Occurs(words[i], RowText(row))

RECURSIVE Paginate(_, _)
\* the pages of get_history without search, from row start on, until a short page
Paginate(plays, start) ==
  IF start >= maxChunks * chunkSize THEN <<>>
  ELSE LET arr == SubSeq(plays, start + 1, Min(start + chunkSize, Len(plays)))
       IN IF Len(arr) < chunkSize THEN arr ELSE arr \o Paginate(plays, start + chunkSize)

\* process.argv[3] ?? get('LENGTH') ?? '100', the length written as a decimal
lengthRaw(q) == IF q.length = <<>> THEN "100" ELSE ToString(q.length[1])

\* parseInt(s, 10) of a decimal integer
parseInt(s) == CHOOSE n \in (-ReturnCap - 1) .. (ReturnCap + 2) : ToString(n) = s

\* Math.max(1, parseInt(lengthRaw, 10) || 100)
scriptLength(q) ==
  LET n == parseInt(lengthRaw(q)) IN
  IF (IF n = 0 THEN 100 ELSE n) >= 1 THEN (IF n = 0 THEN 100 ELSE n) ELSE 1

\* the watch-history figures built from the rows and the number of entries wanted
Figures(rows, wanted) ==
  LET history == [i \in 1 .. Min(wanted, Len(rows)) |-> mapRow(rows[i])]
  IN [watchedCount |-> Len(rows), returned |-> Len(history), history |-> history]

\* scripts/dummy_test.mjs main(): search, fallback pagination with the client-side
\* filter when the search found nothing, then the mapping of the first rows
scriptFigures(q, b) ==
  LET words == searchWords(q.title)
      rows == IF Len(b.found) = 0 /\ Len(words) > 0
                THEN SelectSeq(Paginate(b.plays, 0), LAMBDA row : MatchesWords(row, words))
                ELSE b.found
  IN Figures(rows, Min(scriptLength(q), 100))

\* the server's title flow on the answer of its history search
serverFigures(q, b) ==
  Figures(b.found,
          returnLimit(Given(IF q.length = <<>> THEN EmptyBag
                            ELSE [x \in {"length"} |-> q.length[1]])))

InitScript ==
  /\ probe \in [query : ScriptQueries, tautulli : BackendContents]
  /\ served = NotServed
  /\ scripted = NotServed
  /\ clients = {"tautulli"}
  /\ TOOLS = BuildTools(clients)
  /\ pc = "idle"
  /\ name = ""
  /\ args = NoArgs
  /\ ip = 0
  /\ calls = <<>>
  /\ acc = <<>>
  /\ result = NoResult
  /\ HistoryIdle
  /\ StartupIdle
  /\ LibraryIdle
  /\ FormatIdle
  /\ ClientIdle

\* the server answers tautulli_get_history for the title
ServerRuns ==
  /\ served = NotServed
  /\ served' = <<serverFigures(probe.query, probe.tautulli)>>
  /\ UNCHANGED <<serverVars, historyVars, startupVars, library, formatVars, clientVars, probe, scripted>>

\* the script is run with the same title and length
ScriptRuns ==
  /\ scripted = NotServed
  /\ scripted' = <<scriptFigures(probe.query, probe.tautulli)>>
  /\ UNCHANGED <<serverVars, historyVars, startupVars, library, formatVars, clientVars, probe, served>>

NextScript == ServerRuns \/ ScriptRuns

SpecScript == InitScript /\ [][NextScript]_vars

(***************************************************************************)
(* C30: for the same title, length and backend contents the script         *)
(* produces the same watchedCount, returned and history as the server's    *)
(* tautulli_get_history title flow.                                        *)
(***************************************************************************)
C30_ScriptMatchesServer ==
  (served # NotServed /\ scripted # NotServed) =>
    /\ scripted[1].watchedCount = served[1].watchedCount
    /\ scripted[1].returned = served[1].returned
    /\ scripted[1].history = served[1].history

\* the same, where the text search found rows and the length is positive or absent
C30_AgreeOnFoundRows ==
  (/\ served # NotServed /\ scripted # NotServed
   /\ probe.tautulli.found # <<>>
   /\ probe.query.length # <<>> => probe.query.length[1] >= 0) =>
    scripted = served

====
